---- MODULE Spec2Model ----
(***************************************************************************)
(* A model of the analysis pipeline of mactop-report: the Statistics       *)
(* Engine in its three implementations (mactop_monitor.py, dashboard.py,   *)
(* mactop_report/analyze.py), the derived-metric calculator, the           *)
(* sufficiency scorer, the peak-window finder and the heatmap aggregator,  *)
(* and of what feeds it: the three parsers of the /metrics text, the       *)
(* loader of the CSV files, file discovery and the analyze command; of the *)
(* recorder (record.py) that writes the daily CSV files; and of the        *)
(* dashboard's DashboardData and the peak period its views present.        *)
(*                                                                         *)
(* Numbers.  A CSV cell is modelled as a sequence: <<>> is the empty cell  *)
(* (the empty string "", a null of a Polars column), <<v>> holds the       *)
(* number v.  A computed float is modelled as the exact rational           *)
(* <<num, den>> in lowest terms with den > 0, so equality of results is    *)
(* equality of tuples.  Python's and Polars' None is the empty tuple <<>>. *)
(* A standard deviation is kept as <<"sqrt", variance>>, 0.0 as the root   *)
(* of 0.                                                                   *)
(***************************************************************************)
EXTENDS Integers, Sequences, FiniteSets, TLC

VARIABLES
    last,          \* the operation that ran last ("init" before any)
    column,        \* Statistics Engine: one metric's cells, row by row
    stats,         \* Statistics Engine: the statistics record returned
    sufficiency,   \* calculate_sufficiency_metrics: its outcome
    df,            \* calculate_derived_metrics: the input DataFrame (rows)
    result_df,     \* calculate_derived_metrics: the DataFrame returned
    data,          \* find_peak_window: rows (timestamp cell, metric cell)
    peak,          \* find_peak_window: the (start_index, average) returned
    hdf,           \* prepare_heatmap_data: rows (timestamp, metric cell)
    heatmap_data,  \* prepare_heatmap_data: the mapping returned
    text,          \* parse_metrics: the text of one /metrics response
    results,       \* parse_metrics: the parser that ran and its mapping
    file_paths,    \* load_data: the files given, each with its content
    combined_df,   \* load_data: its outcome (the DataFrame or the error)
    data_dir,      \* find_csv_files: the files of the data directory
    date_range,    \* find_csv_files: start_date and end_date, today
    csv_files,     \* find_csv_files: the files returned
    analysis_results,  \* run_analysis: its outcome
    pc,            \* recording_session: where the session stands
    now,           \* recording_session: the wall clock, in minutes
    metrics_buffer,  \* recording_session: the samples not yet written
    csv_path,      \* recording_session: the file a flush appends to
    file_content,  \* recording_session: the CSV files written, by path
    fetched,       \* recording_session: the samples fetched, in fetch order
    dashboard_data,  \* DashboardData: the rows read and the series built
    peak_info      \* the peak period a view displays

analysisVars == <<column, stats, sufficiency, df, result_df, data, peak, hdf, heatmap_data>>

ingestVars ==
    <<text, results, file_paths, combined_df, data_dir, date_range, csv_files,
      analysis_results>>

recordVars == <<pc, now, metrics_buffer, csv_path, file_content, fetched>>

viewVars == <<dashboard_data, peak_info>>

vars == <<last, analysisVars, ingestVars, recordVars, viewVars>>

(***************************************************************************)
(* Bounds of the model.                                                    *)
(***************************************************************************)
MaxLen == 5        \* rows of a metric column given to the Statistics Engine
MaxScoredLen == 3  \* rows of a metric column whose record is scored
MaxDfRows == 2     \* rows of the DataFrame given to calculate_derived_metrics
MaxPeakRows == 3   \* rows of the dataset given to find_peak_window
MaxHeatRows == 3   \* rows of the DataFrame given to prepare_heatmap_data

(***************************************************************************)
(* Exact arithmetic on results.                                            *)
(***************************************************************************)
Abs(x) == IF x < 0 THEN 0 - x ELSE x

RECURSIVE GCD(_, _)
GCD(a, b) == IF b = 0 THEN a ELSE GCD(b, a % b)

\* n / d for d # 0, in lowest terms with a positive denominator
Rat(n, d) ==
    LET s == IF d < 0 THEN 0 - 1 ELSE 1
        g == GCD(Abs(n), Abs(d))
    IN  <<(s * n) \div g, (s * d) \div g>>

Zero == <<0, 1>>
None == <<>>
Empty == <<>>

FromInt(v) == <<v, 1>>
RAdd(a, b) == Rat(a[1] * b[2] + b[1] * a[2], a[2] * b[2])
RSub(a, b) == Rat(a[1] * b[2] - b[1] * a[2], a[2] * b[2])
RMul(a, b) == Rat(a[1] * b[1], a[2] * b[2])
RDiv(a, b) == Rat(a[1] * b[2], a[2] * b[1])
RLeq(a, b) == a[1] * b[2] <= b[1] * a[2]
RLt(a, b) == a[1] * b[2] < b[1] * a[2]
Sqrt(r) == <<"sqrt", r>>

RECURSIVE Sum(_)
Sum(s) == IF s = <<>> THEN 0 ELSE Head(s) + Sum(Tail(s))

RECURSIVE SumSq(_)
SumSq(s) == IF s = <<>> THEN 0 ELSE Head(s) * Head(s) + SumSq(Tail(s))

\* sum(values) / len(values)
Mean(s) == Rat(Sum(s), Len(s))

\* statistics.variance: the sample variance, n - 1 in the denominator
Variance(s) ==
    LET n == Len(s)
    IN  Rat(n * SumSq(s) - Sum(s) * Sum(s), n * (n - 1))

\* min(values), max(values) of a non-empty list
RECURSIVE SeqMin(_)
SeqMin(s) ==
    IF Len(s) = 1 THEN Head(s)
    ELSE LET m == SeqMin(Tail(s)) IN IF Head(s) < m THEN Head(s) ELSE m

RECURSIVE SeqMax(_)
SeqMax(s) ==
    IF Len(s) = 1 THEN Head(s)
    ELSE LET m == SeqMax(Tail(s)) IN IF Head(s) > m THEN Head(s) ELSE m

\* list.sort() / sorted(): ascending, by insertion
RECURSIVE Insert(_, _)
Insert(x, s) ==
    IF s = <<>> THEN <<x>>
    ELSE IF x <= Head(s) THEN <<x>> \o s
    ELSE <<Head(s)>> \o Insert(x, Tail(s))

\* (mutant) the sort forgotten: the values stay in row order
SortedForgotten(s) == s

RECURSIVE Sorted(_)
Sorted(s) == IF s = <<>> THEN <<>> ELSE Insert(Head(s), Sorted(Tail(s)))

(***************************************************************************)
(* Statistics Engine.                                                      *)
(***************************************************************************)
\* the cells a recorder writes for a metric: a number, or nothing
StatValues == {10, 20, 30, 40, 50}
StatCells == {Empty} \cup {<<v>> : v \in StatValues}

\* [float(row[metric]) for row in data if metric in row and row[metric] != ""]
RECURSIVE NonMissing(_)
NonMissing(col) ==
    IF col = <<>> THEN <<>>
    ELSE IF Head(col) # Empty THEN <<Head(col)[1]>> \o NonMissing(Tail(col))
    ELSE NonMissing(Tail(col))

\* DashboardData._process_data: a missing cell becomes 0.0 in the series
RECURSIVE ProcessData(_)
ProcessData(col) ==
    IF col = <<>> THEN <<>>
    ELSE <<IF Head(col) # Empty THEN Head(col)[1] ELSE 0>> \o ProcessData(Tail(col))

\* (mutant) the rank taken over n - 1, as interpolating methods do
PercentileIndexLow(n, pct) == ((n - 1) * pct) \div 100

\* int(n * 0.75), int(n * 0.95): pct is the percentile in hundredths; the
\* float product truncates to floor(n * pct / 100) (checked for n < 200000)
PercentileIndex(n, pct) == (n * pct) \div 100

\* (mutant) the upper middle element, whatever the parity of n
MedianUpper(sorted) == FromInt(sorted[(Len(sorted) \div 2) + 1])

\* values[n // 2] if n % 2 == 1 else (values[n // 2 - 1] + values[n // 2]) / 2
\* (0-based indices; sequences here are 1-based)
Median(sorted) ==
    LET n == Len(sorted)
    IN  IF n % 2 = 1 THEN FromInt(sorted[(n \div 2) + 1])
        ELSE Rat(sorted[n \div 2] + sorted[(n \div 2) + 1], 2)

\* mactop_monitor.calculate_statistics
EmptyStatistics ==
    [min |-> Zero, max |-> Zero, mean |-> Zero, median |-> Zero,
     p75 |-> Zero, p95 |-> Zero, std_dev |-> Sqrt(Zero), variance |-> Zero]

calculate_statistics(col) ==
    LET values == Sorted(NonMissing(col))
        n == Len(values)
    IN  IF n = 0 THEN EmptyStatistics
        ELSE [min |-> FromInt(SeqMin(values)),
              max |-> FromInt(SeqMax(values)),
              mean |-> Mean(values),
              median |-> Median(values),
              p75 |-> FromInt(values[PercentileIndex(n, 75) + 1]),
              p95 |-> FromInt(values[PercentileIndex(n, 95) + 1]),
              std_dev |-> IF n > 1 THEN Sqrt(Variance(values)) ELSE Sqrt(Zero),
              variance |-> IF n > 1 THEN Variance(values) ELSE Zero]

\* DashboardData.get_stats
EmptyStats ==
    [min |-> Zero, max |-> Zero, mean |-> Zero, median |-> Zero,
     p75 |-> Zero, p95 |-> Zero]

get_stats(metric_data) ==
    LET sorted_data == Sorted(metric_data)
        n == Len(sorted_data)
    IN  IF n = 0 THEN EmptyStats
        ELSE [min |-> FromInt(SeqMin(sorted_data)),
              max |-> FromInt(SeqMax(sorted_data)),
              mean |-> Mean(sorted_data),
              median |-> Median(sorted_data),
              p75 |-> FromInt(sorted_data[PercentileIndex(n, 75) + 1]),
              p95 |-> FromInt(sorted_data[PercentileIndex(n, 95) + 1])]

\* analyze.calculate_statistics: the Polars aggregations of one column.
\* Series.quantile(q) uses the "nearest" method, whose index is
\* floor(n * q) clamped to n - 1 in older Polars releases and
\* round((n - 1) * q) in newer ones; `method` says which one the build has.
QuantileMethods == {"floor", "round"}

PolarsQuantileIndex(n, pct, method) ==
    IF method = "floor"
    THEN LET i == (n * pct) \div 100 IN IF i > n - 1 THEN n - 1 ELSE i
    ELSE (2 * (n - 1) * pct + 100) \div 200

PolarsQuantile(values, pct, method) ==
    FromInt(values[PolarsQuantileIndex(Len(values), pct, method) + 1])

\* every aggregation of a column without a non-null value is None
analyze_calculate_statistics(col, method) ==
    LET values == Sorted(NonMissing(col))
        n == Len(values)
    IN  IF n = 0
        THEN [min |-> None, max |-> None, mean |-> None, median |-> None,
              p50 |-> None, p75 |-> None, p95 |-> None, std |-> None]
        ELSE [min |-> FromInt(SeqMin(values)),
              max |-> FromInt(SeqMax(values)),
              mean |-> Mean(values),
              median |-> Median(values),
              p50 |-> PolarsQuantile(values, 50, method),
              p75 |-> PolarsQuantile(values, 75, method),
              p95 |-> PolarsQuantile(values, 95, method),
              std |-> IF n > 1 THEN Sqrt(Variance(values)) ELSE None]

(***************************************************************************)
(* Sufficiency Scorer: analyze.calculate_sufficiency_metrics.              *)
(* The outcome is [raised, sufficiency]: the exception that escaped        *)
(* ("" when none did) and the mapping returned.                            *)
(***************************************************************************)
\* one metric's score: (p95 - p75) / max_val, 0.0 when max_val == 0;
\* None == 0 is False in Python, and None - None raises TypeError
ScoreRaises(metric_stats) ==
    /\ metric_stats["max"] # Zero
    /\ \/ metric_stats["p75"] = None
       \/ metric_stats["p95"] = None
       \/ metric_stats["max"] = None

Score(metric_stats) ==
    IF metric_stats["max"] = Zero THEN Zero
    ELSE RDiv(RSub(metric_stats["p95"], metric_stats["p75"]), metric_stats["max"])

HasRequired(metric_stats) ==
    /\ "p75" \in DOMAIN metric_stats
    /\ "p95" \in DOMAIN metric_stats
    /\ "max" \in DOMAIN metric_stats

calculate_sufficiency_metrics(stats_dict) ==
    LET scored == {m \in DOMAIN stats_dict : HasRequired(stats_dict[m])}
    IN  IF \E m \in scored : ScoreRaises(stats_dict[m])
        THEN [raised |-> "TypeError", sufficiency |-> <<>>]
        ELSE [raised |-> "", sufficiency |-> [m \in scored |-> Score(stats_dict[m])]]

(***************************************************************************)
(* The Statistics Engine and the Sufficiency Scorer as a state machine:    *)
(* a metric column is read, one of the three engines computes its record,  *)
(* and the scorer is applied to the record.                                *)
(***************************************************************************)
Idle == <<>>
Metric == "cpu_usage_percent"

\* nothing fetched, found or loaded: the analysis functions work on their own
IngestIdle ==
    /\ text = Idle /\ results = Idle
    /\ file_paths = Idle /\ combined_df = Idle
    /\ data_dir = Idle /\ date_range = Idle /\ csv_files = Idle
    /\ analysis_results = Idle

\* no analysis function has run
AnalysisIdle ==
    /\ column = Idle /\ stats = Idle /\ sufficiency = Idle
    /\ df = Idle /\ result_df = Idle
    /\ data = Idle /\ peak = Idle
    /\ hdf = Idle /\ heatmap_data = Idle

\* no recording session has run
RecordIdle ==
    /\ pc = Idle /\ now = Idle /\ metrics_buffer = Idle
    /\ csv_path = Idle /\ file_content = Idle /\ fetched = Idle

\* no dashboard has loaded a file or displayed a peak
ViewIdle == dashboard_data = Idle /\ peak_info = Idle

Columns == UNION {[1..n -> StatCells] : n \in 0..MaxLen}

InitStats ==
    /\ IngestIdle
    /\ RecordIdle /\ ViewIdle
    /\ last = "init"
    /\ column \in Columns
    /\ stats = Idle
    /\ sufficiency = Idle
    /\ df = Idle /\ result_df = Idle
    /\ data = Idle /\ peak = Idle
    /\ hdf = Idle /\ heatmap_data = Idle

MonitorCalculateStatistics ==
    /\ last = "init"
    /\ stats' = calculate_statistics(column)
    /\ last' = "monitor.calculate_statistics"
    /\ UNCHANGED <<column, sufficiency, df, result_df, data, peak, hdf, heatmap_data>>
    /\ UNCHANGED ingestVars
    /\ UNCHANGED <<recordVars, viewVars>>

DashboardGetStats ==
    /\ last = "init"
    /\ stats' = get_stats(ProcessData(column))
    /\ last' = "dashboard.get_stats"
    /\ UNCHANGED <<column, sufficiency, df, result_df, data, peak, hdf, heatmap_data>>
    /\ UNCHANGED ingestVars
    /\ UNCHANGED <<recordVars, viewVars>>

AnalyzeCalculateStatistics ==
    /\ last = "init"
    /\ \E method \in QuantileMethods :
          stats' = analyze_calculate_statistics(column, method)
    /\ last' = "analyze.calculate_statistics"
    /\ UNCHANGED <<column, sufficiency, df, result_df, data, peak, hdf, heatmap_data>>
    /\ UNCHANGED ingestVars
    /\ UNCHANGED <<recordVars, viewVars>>

\* run_analysis hands the records of analyze.calculate_statistics to the
\* scorer; the test hands it records holding only p75, p95 and max, and a
\* record lacking one of the three is skipped
StatsKeySets(rec) == {DOMAIN rec, {"p75", "p95", "max"}, DOMAIN rec \ {"max"}}

CalculateSufficiencyMetrics ==
    /\ last = "analyze.calculate_statistics"
    /\ \E keys \in StatsKeySets(stats) :
          LET stats_dict == [m \in {Metric} |-> [k \in keys |-> stats[k]]]
          IN  sufficiency' = [input |-> stats_dict,
                              outcome |-> calculate_sufficiency_metrics(stats_dict)]
    /\ last' = "calculate_sufficiency_metrics"
    /\ UNCHANGED <<column, stats, df, result_df, data, peak, hdf, heatmap_data>>
    /\ UNCHANGED ingestVars
    /\ UNCHANGED <<recordVars, viewVars>>

NextStats ==
    \/ MonitorCalculateStatistics
    \/ DashboardGetStats
    \/ AnalyzeCalculateStatistics

SpecStats == InitStats /\ [][NextStats]_vars

\* the scorer's case max = 0 needs readings of 0
ScoredValues == {0, 10, 30, 40}
ScoredCells == {Empty} \cup {<<v>> : v \in ScoredValues}

InitSufficiency ==
    /\ IngestIdle
    /\ RecordIdle /\ ViewIdle
    /\ last = "init"
    /\ column \in UNION {[1..n -> ScoredCells] : n \in 0..MaxScoredLen}
    /\ stats = Idle
    /\ sufficiency = Idle
    /\ df = Idle /\ result_df = Idle
    /\ data = Idle /\ peak = Idle
    /\ hdf = Idle /\ heatmap_data = Idle

NextSufficiency ==
    \/ AnalyzeCalculateStatistics
    \/ CalculateSufficiencyMetrics

SpecSufficiency == InitSufficiency /\ [][NextSufficiency]_vars

(***************************************************************************)
(* Claims about the Statistics Engine and the Sufficiency Scorer.          *)
(***************************************************************************)
\* the series an engine computes over: the non-missing values of the column
\* (monitor, analyze), or the dashboard's series with 0.0 for a missing cell
Series == IF last = "dashboard.get_stats" THEN ProcessData(column) ELSE NonMissing(column)

MonitorOrDashboard == last \in {"monitor.calculate_statistics", "dashboard.get_stats"}

CountBelow(vals, v) == Cardinality({i \in 1..Len(vals) : vals[i] < v})
CountUpTo(vals, v) == Cardinality({i \in 1..Len(vals) : vals[i] <= v})

\* v is the element at 0-based index k of vals in ascending order
IsAtRank(vals, v, k) ==
    /\ \E i \in 1..Len(vals) : vals[i] = v
    /\ CountBelow(vals, v) <= k
    /\ k < CountUpTo(vals, v)

\* C1: for every non-empty series, the record of mactop_monitor's
\* calculate_statistics and of DashboardData.get_stats satisfies
\* min <= median <= p75 <= p95 <= max.
C1_PercentileOrder ==
    (MonitorOrDashboard /\ Series # <<>>) =>
        /\ RLeq(stats.min, stats.median)
        /\ RLeq(stats.median, stats.p75)
        /\ RLeq(stats.p75, stats.p95)
        /\ RLeq(stats.p95, stats.max)

\* an unsorted column of four readings whose record separates min, median and p75
C1_Witness ==
    /\ last = "monitor.calculate_statistics"
    /\ column = <<<<50>>, <<10>>, <<40>>, <<20>>>>
    /\ RLt(stats.min, stats.median)
    /\ RLt(stats.median, stats.p75)

\* C2: for n >= 1 non-missing values, p75 and p95 are the elements at the
\* 0-based indices floor(n * 0.75) and floor(n * 0.95) of the values in
\* ascending order, and both indices are below n.
C2_NearestRank ==
    (MonitorOrDashboard /\ Series # <<>>) =>
        LET n == Len(Series)
            i75 == (75 * n) \div 100
            i95 == (95 * n) \div 100
        IN  /\ i75 < n
            /\ i95 < n
            /\ stats.p75[2] = 1 /\ IsAtRank(Series, stats.p75[1], i75)
            /\ stats.p95[2] = 1 /\ IsAtRank(Series, stats.p95[1], i95)

\* the example of the claim, with its rows out of order
C2_Witness ==
    /\ last = "monitor.calculate_statistics"
    /\ column = <<<<30>>, <<10>>, <<50>>, <<20>>, <<40>>>>
    /\ stats.p75 = FromInt(40)
    /\ stats.p95 = FromInt(50)

\* C3: with zero non-missing observations of a metric, every field of the
\* record the Statistics Engine returns is 0.0.
C3_EmptyIsAllZero ==
    (last # "init" /\ NonMissing(column) = <<>>) =>
        \A k \in DOMAIN stats :
            stats[k] = (IF k \in {"std_dev", "std"} THEN Sqrt(Zero) ELSE Zero)

\* C4: the median of n >= 1 values is the middle element of the sorted
\* values when n is odd, and the average of the two middle elements when
\* n is even.
C4_Median ==
    (MonitorOrDashboard /\ Series # <<>>) =>
        LET n == Len(Series)
        IN  IF n % 2 = 1
            THEN /\ stats.median[2] = 1
                 /\ IsAtRank(Series, stats.median[1], n \div 2)
            ELSE \E i, j \in 1..n :
                    /\ IsAtRank(Series, Series[i], (n \div 2) - 1)
                    /\ IsAtRank(Series, Series[j], n \div 2)
                    /\ stats.median = Rat(Series[i] + Series[j], 2)

\* an even number of readings whose median is none of them
C4_Witness ==
    /\ last = "dashboard.get_stats"
    /\ column = <<<<40>>, <<10>>, <<50>>, <<20>>>>
    /\ stats.median = FromInt(30)

\* C6: calculate_sufficiency_metrics raises nothing for a record the
\* Statistics Engine produced, and returns, for every metric whose record
\* has p75, p95 and max, (p95 - p75) / max, and 0.0 when max is 0.
C6_SufficiencyTotal ==
    last = "calculate_sufficiency_metrics" =>
        /\ sufficiency.outcome.raised = ""
        /\ \A m \in DOMAIN sufficiency.input :
              LET rec == sufficiency.input[m]
              IN  HasRequired(rec) =>
                    /\ m \in DOMAIN sufficiency.outcome.sufficiency
                    /\ sufficiency.outcome.sufficiency[m] =
                          IF rec["max"] = Zero THEN Zero
                          ELSE RDiv(RSub(rec["p95"], rec["p75"]), rec["max"])

(***************************************************************************)
(* Derived-Metric Calculator: analyze.calculate_derived_metrics.           *)
(* A DataFrame is a sequence of rows, a row a record of cells; a null is   *)
(* the empty cell.                                                         *)
(***************************************************************************)
\* df.with_columns(expr.alias(name)) on one row
WithColumn(row, name, value) ==
    [k \in DOMAIN row \cup {name} |-> IF k = name THEN value ELSE row[k]]

\* (mutant) when(...).then(...) with no otherwise: null where the guard fails
DerivedPercentNoOtherwise(numerator, memory_total) ==
    IF memory_total # Empty /\ memory_total[1] > 0 /\ numerator # Empty
    THEN Rat(numerator[1] * 100, memory_total[1])
    ELSE None

\* pl.when(pl.col("memory_total") > 0)
\*   .then(pl.col(numerator) / pl.col("memory_total") * 100.0).otherwise(0.0):
\* a null guard selects the otherwise branch, a null numerator gives null
DerivedPercent(numerator, memory_total) ==
    IF memory_total # Empty /\ memory_total[1] > 0
    THEN IF numerator # Empty
         THEN Rat(numerator[1] * 100, memory_total[1])
         ELSE None
    ELSE Zero

calculate_derived_metrics(frame) ==
    [i \in 1..Len(frame) |->
        WithColumn(
            WithColumn(frame[i], "ram_percent",
                       DerivedPercent(frame[i].memory_used, frame[i].memory_total)),
            "swap_pressure_percent",
            DerivedPercent(frame[i].memory_swap_used, frame[i].memory_total))]

\* the rows a recording holds: memory readings in GB, any of them missing
MemoryTotals == {Empty, <<0>>, <<8>>, <<16>>}
MemoryUsed == {Empty, <<4>>, <<12>>}
SwapUsed == {Empty, <<0>>, <<2>>}
Timestamps == {<<0>>}

DfRows ==
    [timestamp : Timestamps, memory_used : MemoryUsed,
     memory_total : MemoryTotals, memory_swap_used : SwapUsed]

InitDerived ==
    /\ IngestIdle
    /\ RecordIdle /\ ViewIdle
    /\ last = "init"
    /\ df \in UNION {[1..n -> DfRows] : n \in 0..MaxDfRows}
    /\ result_df = Idle
    /\ column = Idle /\ stats = Idle /\ sufficiency = Idle
    /\ data = Idle /\ peak = Idle
    /\ hdf = Idle /\ heatmap_data = Idle

CalculateDerivedMetrics ==
    /\ last = "init"
    /\ result_df' = calculate_derived_metrics(df)
    /\ last' = "calculate_derived_metrics"
    /\ UNCHANGED <<df, column, stats, sufficiency, data, peak, hdf, heatmap_data>>
    /\ UNCHANGED ingestVars
    /\ UNCHANGED <<recordVars, viewVars>>

NextDerived == CalculateDerivedMetrics

SpecDerived == InitDerived /\ [][NextDerived]_vars

\* C5: calculate_derived_metrics adds ram_percent = memory_used /
\* memory_total * 100 and swap_pressure_percent = memory_swap_used /
\* memory_total * 100 to every row; where memory_total is 0 both are exactly
\* 0 (not null); the original columns and the row count are unchanged.
C5_DerivedMetrics ==
    last = "calculate_derived_metrics" =>
        /\ Len(result_df) = Len(df)
        /\ \A i \in 1..Len(df) :
              LET row == df[i]
                  out == result_df[i]
              IN  /\ DOMAIN out = DOMAIN row \cup {"ram_percent", "swap_pressure_percent"}
                  /\ \A k \in DOMAIN row : out[k] = row[k]
                  /\ row.memory_total = <<0>> =>
                        /\ out.ram_percent = Zero
                        /\ out.swap_pressure_percent = Zero
                  /\ (row.memory_total # Empty /\ row.memory_total[1] > 0) =>
                        /\ row.memory_used # Empty =>
                              /\ out.ram_percent # None
                              /\ out.ram_percent[1] * row.memory_total[1]
                                    = out.ram_percent[2] * row.memory_used[1] * 100
                        /\ row.memory_swap_used # Empty =>
                              /\ out.swap_pressure_percent # None
                              /\ out.swap_pressure_percent[1] * row.memory_total[1]
                                    = out.swap_pressure_percent[2] * row.memory_swap_used[1] * 100

\* a frame with a zero-total row next to an ordinary one (12 of 16 GB: 75 %)
C5_Witness ==
    /\ last = "calculate_derived_metrics"
    /\ Len(df) = 2
    /\ df[1].memory_total = <<0>> /\ df[1].memory_used = <<4>>
    /\ result_df[1].ram_percent = Zero
    /\ df[2].memory_total = <<16>> /\ df[2].memory_used = <<12>>
    /\ result_df[2].ram_percent = FromInt(75)

(***************************************************************************)
(* Peak-Window Finder: mactop_monitor.find_peak_window and                 *)
(* DashboardData.find_peak_window.  A timestamp is a number of seconds; a  *)
(* timestamp cell that datetime.fromisoformat rejects is the empty cell.   *)
(* The start index returned is 0-based, as in the code.                    *)
(***************************************************************************)
window_minutes == 15
WindowSeconds == window_minutes * 60

\* the instant datetime.now() gives while the dashboard loads its file
Now == 3000

\* not data or len(data) < 2
TooFew(n) == n < 2

\* (mutant) the short-span branch never taken
ShortSpanNever(span) == FALSE

\* (end_time - start_time).total_seconds() < window_minutes * 60
ShortSpan(span) == span < WindowSeconds

\* (mutant) a window that ties the running maximum replaces it
BeatsOrTies(window_avg, highest_avg) == RLeq(highest_avg, window_avg)

\* window_avg > highest_avg
Beats(window_avg, highest_avg) == RLt(highest_avg, window_avg)

\* the inner loop: from row j on, until a timestamp exceeds window_end
\* (break); a missing cell adds nothing.  ts are seconds, cells are cells.
RECURSIVE WindowValues(_, _, _, _)
WindowValues(ts, cells, j, window_end) ==
    IF j > Len(ts) \/ j > Len(cells) THEN <<>>
    ELSE IF ts[j] > window_end THEN <<>>
    ELSE (IF cells[j] # Empty THEN <<cells[j][1]>> ELSE <<>>)
            \o WindowValues(ts, cells, j + 1, window_end)

\* the outer loop, for i in range(len(data) - 1); i is 1-based here and the
\* index kept is i - 1
RECURSIVE ScanWindows(_, _, _, _, _)
ScanWindows(ts, cells, i, best_start_idx, highest_avg) ==
    IF i > Len(cells) - 1 THEN <<best_start_idx, highest_avg>>
    ELSE LET window_values == WindowValues(ts, cells, i, ts[i] + WindowSeconds)
         IN  IF window_values # <<>> /\ Beats(Mean(window_values), highest_avg)
             THEN ScanWindows(ts, cells, i + 1, i - 1, Mean(window_values))
             ELSE ScanWindows(ts, cells, i + 1, best_start_idx, highest_avg)

TimestampCells(rows) == [i \in 1..Len(rows) |-> rows[i].timestamp]
MetricCells(rows) == [i \in 1..Len(rows) |-> rows[i].cpu_usage_percent]
Seconds(cells) == [i \in 1..Len(cells) |-> cells[i][1]]
AllParse(rows) == \A i \in 1..Len(rows) : rows[i].timestamp # Empty

\* mactop_monitor.find_peak_window(data, metric)
find_peak_window(rows) ==
    IF TooFew(Len(rows)) THEN <<0, Zero>>
    ELSE IF ~AllParse(rows) THEN <<0, Zero>>
    ELSE LET ts == Seconds(TimestampCells(rows))
             cells == MetricCells(rows)
             values == NonMissing(cells)
         IN  IF ShortSpan(SeqMax(ts) - SeqMin(ts))
             THEN <<0, IF values # <<>> THEN Mean(values) ELSE Zero>>
             ELSE ScanWindows(ts, cells, 1, 0, Zero)

\* DashboardData._process_data: the timestamps list; a timestamp that does
\* not parse is replaced by datetime.now()
ProcessTimestamps(rows) ==
    [i \in 1..Len(rows) |->
        IF rows[i].timestamp # Empty THEN rows[i].timestamp[1] ELSE Now]

\* DashboardData.find_peak_window(metric_data), over self.timestamps
dashboard_find_peak_window(timestamps, metric_data) ==
    IF TooFew(Len(metric_data)) \/ Len(timestamps) # Len(metric_data) THEN <<0, Zero>>
    ELSE IF ShortSpan(timestamps[Len(timestamps)] - timestamps[1])
         THEN <<0, Mean(metric_data)>>
         ELSE ScanWindows(timestamps,
                          [i \in 1..Len(metric_data) |-> <<metric_data[i]>>],
                          1, 0, Zero)

\* rows of a recording: samples at 0:00, 15:00 and 20:00 of one hour, in
\* any order, with readings that may be missing
PeakTimes == {Empty, <<0>>, <<900>>, <<1200>>}
PeakCells == {Empty, <<0 - 1>>, <<0>>, <<1>>, <<2>>}
PeakRows == [timestamp : PeakTimes, cpu_usage_percent : PeakCells]

InitPeak ==
    /\ IngestIdle
    /\ RecordIdle /\ ViewIdle
    /\ last = "init"
    /\ data \in UNION {[1..n -> PeakRows] : n \in 0..MaxPeakRows}
    /\ peak = Idle
    /\ column = Idle /\ stats = Idle /\ sufficiency = Idle
    /\ df = Idle /\ result_df = Idle
    /\ hdf = Idle /\ heatmap_data = Idle

MonitorFindPeakWindow ==
    /\ last = "init"
    /\ peak' = find_peak_window(data)
    /\ last' = "monitor.find_peak_window"
    /\ UNCHANGED <<data, column, stats, sufficiency, df, result_df, hdf, heatmap_data>>
    /\ UNCHANGED ingestVars
    /\ UNCHANGED <<recordVars, viewVars>>

DashboardFindPeakWindow ==
    /\ last = "init"
    /\ peak' = dashboard_find_peak_window(ProcessTimestamps(data),
                                          ProcessData(MetricCells(data)))
    /\ last' = "dashboard.find_peak_window"
    /\ UNCHANGED <<data, column, stats, sufficiency, df, result_df, hdf, heatmap_data>>
    /\ UNCHANGED ingestVars
    /\ UNCHANGED <<recordVars, viewVars>>

NextPeak ==
    \/ MonitorFindPeakWindow
    \/ DashboardFindPeakWindow

SpecPeak == InitPeak /\ [][NextPeak]_vars

(***************************************************************************)
(* Claims about the Peak-Window Finder.                                    *)
(***************************************************************************)
PeakFound == last \in {"monitor.find_peak_window", "dashboard.find_peak_window"}

\* the metric's values in the series: the monitor drops a missing cell, the
\* dashboard's series holds 0.0 for it
PeakSeries ==
    IF last = "dashboard.find_peak_window"
    THEN ProcessData(MetricCells(data))
    ELSE NonMissing(MetricCells(data))

SeriesMean(series) == IF series # <<>> THEN Rat(Sum(series), Len(series)) ELSE Zero

\* the dataset's time span: latest timestamp minus earliest
TimeSpan(rows) ==
    LET ts == Seconds(TimestampCells(rows))
    IN  SeqMax(ts) - SeqMin(ts)

Chronological(rows) ==
    \A i, j \in 1..Len(rows) :
        i < j => rows[i].timestamp[1] <= rows[j].timestamp[1]

\* the rows of the window that starts at row i: every j >= i with
\* timestamp[j] <= timestamp[i] + duration that holds a value
WindowRows(rows, i) ==
    {j \in i..Len(rows) :
        /\ rows[j].timestamp[1] <= rows[i].timestamp[1] + WindowSeconds
        /\ (last = "dashboard.find_peak_window" \/ rows[j].cpu_usage_percent # Empty)}

ValueAt(rows, j) ==
    IF rows[j].cpu_usage_percent # Empty THEN rows[j].cpu_usage_percent[1] ELSE 0

RECURSIVE SumRows(_, _)
SumRows(rows, S) ==
    IF S = {} THEN 0
    ELSE LET j == CHOOSE x \in S : TRUE
         IN  ValueAt(rows, j) + SumRows(rows, S \ {j})

WindowAverage(rows, i) ==
    Rat(SumRows(rows, WindowRows(rows, i)), Cardinality(WindowRows(rows, i)))

NoPositiveWindow(rows) ==
    \A i \in 1..Len(rows) :
        WindowRows(rows, i) # {} => RLeq(WindowAverage(rows, i), Zero)

\* C7 as claimed: whenever the time span of the dataset is strictly shorter
\* than the window duration, the result is (0, mean of the metric's values).
\* Stated for readings that are not negative.
C7_ShortSpanIsMean ==
    (/\ PeakFound
     /\ Len(data) >= 1
     /\ AllParse(data)
     /\ PeakSeries # <<>>
     /\ \A j \in 1..Len(data) : ValueAt(data, j) >= 0
     /\ TimeSpan(data) < WindowSeconds)
        => peak = <<0, SeriesMean(PeakSeries)>>

\* C7 as amended: when the dataset has at least two rows and its time span
\* is strictly shorter than the window duration, the result is (0, mean of
\* the metric's values), the mean being 0.0 when the monitor finds no value.
C7_ShortSpanIsMeanFromTwoRows ==
    (/\ PeakFound
     /\ Len(data) >= 2
     /\ AllParse(data)
     /\ TimeSpan(data) < WindowSeconds)
        => peak = <<0, SeriesMean(PeakSeries)>>

\* two samples five minutes apart, readings 1 and 2: (0, 1.5)
C7_Witness ==
    /\ last = "monitor.find_peak_window"
    /\ data = <<[timestamp |-> <<900>>, cpu_usage_percent |-> <<1>>],
                [timestamp |-> <<1200>>, cpu_usage_percent |-> <<2>>]>>
    /\ peak = <<0, Rat(3, 2)>>

\* C8: on a chronologically ordered series whose span is at least the
\* window duration, find_peak_window considers every starting index and
\* returns the smallest start index whose window has the highest average,
\* with that average.  Stated for readings that are not negative (usage
\* percentages), where the running maximum's start at 0.0 hides no window.
C8_PeakIsHighestWindow ==
    (/\ PeakFound
     /\ Len(data) >= 2
     /\ AllParse(data)
     /\ Chronological(data)
     /\ TimeSpan(data) >= WindowSeconds
     /\ \A j \in 1..Len(data) : ValueAt(data, j) >= 0
     /\ \E i \in 1..Len(data) : WindowRows(data, i) # {})
        => \E i \in 1..Len(data) :
              /\ WindowRows(data, i) # {}
              /\ \A k \in 1..Len(data) :
                    WindowRows(data, k) # {} =>
                        /\ RLeq(WindowAverage(data, k), WindowAverage(data, i))
                        /\ k < i => RLt(WindowAverage(data, k), WindowAverage(data, i))
              /\ peak = <<i - 1, WindowAverage(data, i)>>

WeekdayFromZero(ts) == ((ts \div 1440) + 3) % 7

\* pl.col("timestamp").dt.weekday(): the ISO weekday, 1 = Monday ... 7 = Sunday
Weekday(ts) == (((ts \div 1440) + 3) % 7) + 1

\* pl.col("timestamp").dt.hour()
Hour(ts) == (ts \div 60) % 24

BucketOf(row) == <<Weekday(row.timestamp), Hour(row.timestamp)>>

\* the non-null metric values of the rows of one group, in row order
RECURSIVE GroupValues(_, _)
GroupValues(rows, key) ==
    IF rows = <<>> THEN <<>>
    ELSE (IF BucketOf(Head(rows)) = key /\ Head(rows).cpu_usage_percent # Empty
          THEN <<Head(rows).cpu_usage_percent[1]>>
          ELSE <<>>) \o GroupValues(Tail(rows), key)

\* group_by(["day_of_week", "hour"]).agg(pl.col(metric).mean()): one entry
\* per group that has a row; the mean skips nulls and is None without values
prepare_heatmap_data(frame) ==
    IF "timestamp" \notin frame.columns \/ Metric \notin frame.columns
    THEN <<>>
    ELSE [key \in {BucketOf(frame.rows[i]) : i \in 1..Len(frame.rows)} |->
            LET values == GroupValues(frame.rows, key)
            IN  IF values = <<>> THEN None ELSE Mean(values)]

\* Monday 2023-04-03 08:00 and 08:30, Tuesday 2023-04-04 10:00,
\* Sunday 2023-04-09 23:00, Monday 2023-04-10 08:15
HeatTimes == {28008480, 28008510, 28010040, 28018020, 28018575}
HeatCells == {Empty, <<10>>, <<20>>, <<40>>}
HeatRows == [timestamp : HeatTimes, cpu_usage_percent : HeatCells]

InitHeat ==
    /\ IngestIdle
    /\ RecordIdle /\ ViewIdle
    /\ last = "init"
    /\ \/ /\ hdf \in [columns : {{"timestamp", Metric}},
                      rows : UNION {[1..n -> HeatRows] : n \in 0..MaxHeatRows}]
       \/ /\ hdf \in [columns : {{"timestamp"}},
                      rows : UNION {[1..n -> [timestamp : HeatTimes]] : n \in 0..1}]
    /\ heatmap_data = Idle
    /\ column = Idle /\ stats = Idle /\ sufficiency = Idle
    /\ df = Idle /\ result_df = Idle
    /\ data = Idle /\ peak = Idle

PrepareHeatmapData ==
    /\ last = "init"
    /\ heatmap_data' = prepare_heatmap_data(hdf)
    /\ last' = "prepare_heatmap_data"
    /\ UNCHANGED <<hdf, column, stats, sufficiency, df, result_df, data, peak>>
    /\ UNCHANGED ingestVars
    /\ UNCHANGED <<recordVars, viewVars>>

NextHeat == PrepareHeatmapData

SpecHeat == InitHeat /\ [][NextHeat]_vars

(***************************************************************************)
(* Claim about the Heatmap Aggregator.                                     *)
(***************************************************************************)
\* 2023-04-03 00:00, a Monday (the test's "Monday 8 AM" is 08:00 that day)
MondayRef == 28008000

\* day and hour of a timestamp, counted from that Monday
DayFromMonday(ts) == (((ts - MondayRef) \div 1440) % 7) + 1
HourOfDay(ts) == ((ts - MondayRef) % 1440) \div 60

\* the rows of bucket key that hold a value
BucketRows(rows, key) ==
    {i \in 1..Len(rows) :
        /\ <<DayFromMonday(rows[i].timestamp), HourOfDay(rows[i].timestamp)>> = key
        /\ rows[i].cpu_usage_percent # Empty}

RECURSIVE SumCells(_, _)
SumCells(rows, S) ==
    IF S = {} THEN 0
    ELSE LET i == CHOOSE x \in S : TRUE
         IN  rows[i].cpu_usage_percent[1] + SumCells(rows, S \ {i})

\* C10: prepare_heatmap_data maps each populated bucket (day of week 1..7,
\* 1 = Monday, 7 = Sunday; hour 0..23) to the mean of the metric over
\* exactly the samples of that bucket; a bucket with no sample is absent.
C10_HeatmapBuckets ==
    (last = "prepare_heatmap_data" /\ Metric \in hdf.columns) =>
        /\ \A i \in 1..Len(hdf.rows) :
              <<DayFromMonday(hdf.rows[i].timestamp), HourOfDay(hdf.rows[i].timestamp)>>
                  \in DOMAIN heatmap_data
        /\ \A key \in DOMAIN heatmap_data :
              /\ key[1] \in 1..7
              /\ key[2] \in 0..23
              /\ \E i \in 1..Len(hdf.rows) :
                    <<DayFromMonday(hdf.rows[i].timestamp), HourOfDay(hdf.rows[i].timestamp)>> = key
              /\ heatmap_data[key] =
                    IF BucketRows(hdf.rows, key) = {} THEN None
                    ELSE Rat(SumCells(hdf.rows, BucketRows(hdf.rows, key)),
                             Cardinality(BucketRows(hdf.rows, key)))

\* Monday 08:00 (10) and 08:30 (20) average 15.0 in bucket (1, 8); Tuesday
\* 10:00 (40) is alone in bucket (2, 10)
C10_Witness ==
    /\ last = "prepare_heatmap_data"
    /\ hdf.rows = <<[timestamp |-> 28008480, cpu_usage_percent |-> <<10>>],
                    [timestamp |-> 28008510, cpu_usage_percent |-> <<20>>],
                    [timestamp |-> 28010040, cpu_usage_percent |-> <<40>>]>>
    /\ DOMAIN heatmap_data = {<<1, 8>>, <<2, 10>>}
    /\ heatmap_data[<<1, 8>>] = FromInt(15)
    /\ heatmap_data[<<2, 10>>] = FromInt(40)

(***************************************************************************)
(* Exposition-Format Parser.  The text of a /metrics response is a         *)
(* sequence of lines and a line is a sequence of tokens: a word (a metric  *)
(* name, a label key, a label value), a value text, or one of the          *)
(* characters  #  {  }  ,  =  "  and the blank " ".  The three parsers of  *)
(* the repository work on these tokens as their code works on characters.  *)
(***************************************************************************)
MaxLines == 2      \* lines of a /metrics response

MetricNames ==
    {"mactop_cpu_usage_percent", "mactop_gpu_usage_percent", "mactop_gpu_freq_mhz",
     "mactop_memory_gb", "mactop_power_watts", "mactop_ane_power", "cpu_usage_percent"}
LabelKeys == {"type", "component", "host"}
LabelValues == {"used", "total", "swap_used", "swap_total", "cpu", "gpu", "x"}
ValueTexts == {"1", "2", "1.2.3", "abc"}

\* \w+ : a run of letters, digits and underscores
IsWord(tok) == tok \in MetricNames \cup LabelKeys \cup LabelValues \cup {"flag", "1", "2", "abc"}

\* [-+]?[\d\.eE]+ : the value group of METRIC_PATTERN
IsValueText(tok) == tok \in {"1", "2", "1.2.3"}

\* float(s) raises ValueError unless s is the text of a number
FloatParses(s) == Len(s) = 1 /\ s[1] \in {"1", "2"}
Float(s) == IF s[1] = "1" THEN 1 ELSE 2

\* str.strip(): leading and trailing blanks removed
RECURSIVE LStrip(_, _)
LStrip(s, chars) ==
    IF s # <<>> /\ Head(s) \in chars THEN LStrip(Tail(s), chars) ELSE s

RECURSIVE RStrip(_, _)
RStrip(s, chars) ==
    IF s # <<>> /\ s[Len(s)] \in chars THEN RStrip(SubSeq(s, 1, Len(s) - 1), chars) ELSE s

Strip(s, chars) == RStrip(LStrip(s, chars), chars)

\* str.split(sep): the pieces between the separators, empty pieces included
RECURSIVE Split(_, _)
Split(s, sep) ==
    IF \A i \in 1..Len(s) : s[i] # sep THEN <<s>>
    ELSE LET i == CHOOSE k \in 1..Len(s) :
                      s[k] = sep /\ \A j \in 1..(k - 1) : s[j] # sep
         IN  <<SubSeq(s, 1, i - 1)>> \o Split(SubSeq(s, i + 1, Len(s)), sep)

\* str.split(sep, 1): cut at the first separator only
SplitOnce(s, sep) ==
    LET i == CHOOSE k \in 1..Len(s) : s[k] = sep /\ \A j \in 1..(k - 1) : s[j] # sep
    IN  <<SubSeq(s, 1, i - 1), SubSeq(s, i + 1, Len(s))>>

\* str.split(): the runs of non-blank characters
RECURSIVE SplitBlank(_)
SplitBlank(s) ==
    LET t == LStrip(s, {" "})
    IN  IF t = <<>> THEN <<>>
        ELSE IF \A i \in 1..Len(t) : t[i] # " " THEN <<t>>
        ELSE LET i == CHOOSE k \in 1..Len(t) :
                          t[k] = " " /\ \A j \in 1..(k - 1) : t[j] # " "
             IN  <<SubSeq(t, 1, i - 1)>> \o SplitBlank(SubSeq(t, i + 1, Len(t)))

\* METRIC_PATTERN.match(line): no match is <<>>, a match is the one-element
\* sequence of its groups (labels is <<>> when the group did not take part)
METRIC_PATTERN(line) ==
    LET n == Len(line)
    IN  IF n < 3 \/ ~IsWord(line[1]) \/ ~IsValueText(line[n]) THEN <<>>
        ELSE IF \A i \in 2..(n - 1) : line[i] = " "
        THEN <<[metric_name |-> line[1], labels |-> <<>>, value |-> <<line[n]>>]>>
        ELSE IF line[2] = "{" /\ \E c \in 4..(n - 2) : line[c] = "}"
        THEN LET c == CHOOSE k \in 4..(n - 2) :
                          line[k] = "}" /\ \A j \in 3..(k - 1) : line[j] # "}"
             IN  IF \A i \in (c + 1)..(n - 1) : line[i] = " "
                 THEN <<[metric_name |-> line[1],
                         labels |-> SubSeq(line, 3, c - 1),
                         value |-> <<line[n]>>]>>
                 ELSE <<>>
        ELSE <<>>

\* results[key] = value of a dict
Put(d, key, value) == [k \in DOMAIN d \cup {key} |-> IF k = key THEN value ELSE d[k]]

\* the fixed (metric name, label key, label value) -> canonical field table
Canonical(metric_name, label_key, label_value) ==
    IF metric_name = "mactop_memory_gb" /\ label_key = <<"type">>
    THEN IF label_value = <<"swap_total">> THEN <<"memory_swap_total">>
         ELSE IF label_value = <<"swap_used">> THEN <<"memory_swap_used">>
         ELSE IF label_value = <<"total">> THEN <<"memory_total">>
         ELSE IF label_value = <<"used">> THEN <<"memory_used">>
         ELSE <<>>
    ELSE IF metric_name = "mactop_power_watts" /\ label_key = <<"component">>
    THEN IF label_value = <<"cpu">> THEN <<"power_cpu">>
         ELSE IF label_value = <<"gpu">> THEN <<"power_gpu">>
         ELSE IF label_value = <<"total">> THEN <<"power_total">>
         ELSE <<>>
    ELSE <<>>

\* the branch of the two branches of Canonical that a line enters
KnownLabel(metric_name, label_key) ==
    \/ metric_name = "mactop_memory_gb" /\ label_key = <<"type">>
    \/ metric_name = "mactop_power_watts" /\ label_key = <<"component">>

\* an unlabeled line: the three tool-specific names are renamed
UnlabeledField(metric_name) ==
    IF metric_name = "mactop_cpu_usage_percent" THEN <<"cpu_usage_percent">>
    ELSE IF metric_name = "mactop_gpu_freq_mhz" THEN <<"gpu_freq_mhz">>
    ELSE IF metric_name = "mactop_gpu_usage_percent" THEN <<"gpu_usage_percent">>
    ELSE <<metric_name>>

\* mactop_monitor.parse_metrics, the labels of one line: every part of the
\* label string that holds an = is looked up
RECURSIVE ParseLabelParts(_, _, _, _)
ParseLabelParts(label_parts, metric_name, value, d) ==
    IF label_parts = <<>> THEN d
    ELSE LET part == Head(label_parts)
             next ==
                 IF \E i \in 1..Len(part) : part[i] = "="
                 THEN LET kv == SplitOnce(part, "=")
                          label_key == Strip(kv[1], {" "})
                          label_value == Strip(Strip(kv[2], {" "}), {"\""})
                          field == Canonical(metric_name, label_key, label_value)
                      IN  IF field # <<>> THEN Put(d, field, value) ELSE d
                 ELSE d
         IN  ParseLabelParts(Tail(label_parts), metric_name, value, next)

\* (mutant) a value that is no float ends the parsing with the ValueError
OnValueErrorRaise == "raise"

\* except ValueError: continue
OnValueError == "continue"

\* mactop_monitor.parse_metrics, one line of the loop
MonitorParseLine(raw, d) ==
    LET line == Strip(raw, {" "})
        match == METRIC_PATTERN(line)
    IN  IF line = <<>> \/ Head(line) = "#" THEN [raised |-> "", metrics |-> d]
        ELSE IF match = <<>> THEN [raised |-> "", metrics |-> d]
        ELSE IF ~FloatParses(match[1].value)
        THEN [raised |-> IF OnValueError = "continue" THEN "" ELSE "ValueError",
              metrics |-> d]
        ELSE LET metric_name == match[1].metric_name
                 value == Float(match[1].value)
             IN  IF match[1].labels = <<>>
                 THEN [raised |-> "", metrics |-> Put(d, UnlabeledField(metric_name), value)]
                 ELSE [raised |-> "",
                       metrics |-> ParseLabelParts(Split(match[1].labels, ","),
                                                   metric_name, value, d)]

\* start_monitor.parse_metrics, one line of the loop: the label string is
\* split on = and used only when that gives two pieces
StartMonitorParseLine(raw, d) ==
    LET line == Strip(raw, {" "})
        match == METRIC_PATTERN(line)
    IN  IF line = <<>> \/ Head(line) = "#" THEN [raised |-> "", metrics |-> d]
        ELSE IF match = <<>> THEN [raised |-> "", metrics |-> d]
        ELSE IF ~FloatParses(match[1].value)
        THEN [raised |-> IF OnValueError = "continue" THEN "" ELSE "ValueError",
              metrics |-> d]
        ELSE LET metric_name == match[1].metric_name
                 value == Float(match[1].value)
                 label_parts == Split(match[1].labels, "=")
             IN  IF match[1].labels = <<>>
                 THEN [raised |-> "", metrics |-> Put(d, UnlabeledField(metric_name), value)]
                 ELSE IF Len(label_parts) # 2 THEN [raised |-> "", metrics |-> d]
                 ELSE LET label_key == Strip(label_parts[1], {" "})
                          label_value == Strip(Strip(label_parts[2], {" "}), {"\""})
                          field == Canonical(metric_name, label_key, label_value)
                          combined_key ==
                              <<metric_name, "_">> \o label_key \o <<"_">> \o label_value
                      IN  IF field # <<>>
                          THEN [raised |-> "", metrics |-> Put(d, field, value)]
                          ELSE IF KnownLabel(metric_name, label_key)
                          THEN [raised |-> "", metrics |-> d]
                          ELSE [raised |-> "", metrics |-> Put(d, combined_key, value)]

\* record.fetch_and_parse_metrics, one line of the loop: "name value"
RecordParseLine(raw, d) ==
    LET line == Strip(raw, {" "})
        parts == SplitBlank(line)
    IN  IF line = <<>> \/ Head(line) = "#" THEN [raised |-> "", metrics |-> d]
        ELSE IF Len(parts) # 2 THEN [raised |-> "", metrics |-> d]
        ELSE IF ~FloatParses(parts[2])
        THEN [raised |-> IF OnValueError = "continue" THEN "" ELSE "ValueError",
              metrics |-> d]
        ELSE [raised |-> "", metrics |-> Put(d, parts[1], Float(parts[2]))]

Parsers == {"mactop_monitor.parse_metrics", "start_monitor.parse_metrics",
            "record.fetch_and_parse_metrics"}

ParseLine(parser, raw, d) ==
    IF parser = "mactop_monitor.parse_metrics" THEN MonitorParseLine(raw, d)
    ELSE IF parser = "start_monitor.parse_metrics" THEN StartMonitorParseLine(raw, d)
    ELSE RecordParseLine(raw, d)

\* for line in text.splitlines(): ...
RECURSIVE ParseLines(_, _, _)
ParseLines(parser, lines, d) ==
    IF lines = <<>> THEN [raised |-> "", metrics |-> d]
    ELSE LET step == ParseLine(parser, Head(lines), d)
         IN  IF step.raised # "" THEN step
             ELSE ParseLines(parser, Tail(lines), step.metrics)

parse_metrics(parser, lines) == ParseLines(parser, lines, <<>>)

(***************************************************************************)
(* The lines of a response.  A line is written from its parts, as mactop   *)
(* writes it: name[{key="value",...}] value.  An item of the label list    *)
(* with an empty value is a bare word without = .                          *)
(***************************************************************************)
Item(k, v) == [key |-> k, value |-> v]

RenderItem(it) ==
    IF it.value = "" THEN <<it.key>> ELSE <<it.key, "=", "\"", it.value, "\"">>

RECURSIVE RenderLabels(_, _)
RenderLabels(labels, sep) ==
    IF Len(labels) = 1 THEN RenderItem(labels[1])
    ELSE RenderItem(labels[1]) \o sep \o RenderLabels(Tail(labels), sep)

\* a data line and the text that carries it
DataLine(lead, name, labels, sep, value) ==
    [kind |-> "data", name |-> name, labels |-> labels, value |-> value,
     tokens |-> lead \o <<name>>
                \o (IF labels = <<>> THEN <<>>
                    ELSE <<"{">> \o RenderLabels(labels, sep) \o <<"}">>)
                \o <<" ", value>>]

\* a line that is no data line
OtherLine(kind, tokens) ==
    [kind |-> kind, name |-> "", labels |-> <<>>, value |-> "", tokens |-> tokens]

UnlabeledLines ==
    {DataLine(<<>>, n, <<>>, <<>>, v) :
        n \in {"mactop_cpu_usage_percent", "mactop_gpu_usage_percent",
               "mactop_gpu_freq_mhz", "mactop_ane_power", "cpu_usage_percent"},
        v \in {"1", "2"}}
    \cup {DataLine(<<>>, "mactop_cpu_usage_percent", <<>>, <<>>, v) : v \in {"1.2.3", "abc"}}
    \cup {DataLine(<<" ">>, "mactop_gpu_usage_percent", <<>>, <<>>, "1")}

OneLabelLines ==
    {DataLine(<<>>, "mactop_memory_gb", <<Item("type", v)>>, <<>>, "1") :
        v \in {"used", "total", "swap_used", "swap_total", "x"}}
    \cup {DataLine(<<>>, "mactop_power_watts", <<Item("component", v)>>, <<>>, "1") :
        v \in {"cpu", "gpu", "total"}}
    \cup {DataLine(<<>>, "mactop_memory_gb", <<Item("host", "used")>>, <<>>, "1"),
          DataLine(<<>>, "mactop_power_watts", <<Item("type", "used")>>, <<>>, "1"),
          DataLine(<<>>, "mactop_ane_power", <<Item("type", "used")>>, <<>>, "1"),
          DataLine(<<>>, "mactop_memory_gb", <<Item("type", "used")>>, <<>>, "2"),
          DataLine(<<>>, "mactop_memory_gb", <<Item("type", "used")>>, <<>>, "abc")}

TwoLabelLines ==
    {DataLine(<<>>, "mactop_memory_gb", <<Item("host", "x"), Item("type", "used")>>, <<",">>, "1"),
     DataLine(<<>>, "mactop_memory_gb", <<Item("type", "used"), Item("host", "x")>>, <<",">>, "1"),
     DataLine(<<>>, "mactop_memory_gb", <<Item("host", "x"), Item("type", "total")>>, <<",", " ">>, "1"),
     DataLine(<<>>, "mactop_memory_gb", <<Item("host", "x"), Item("component", "cpu")>>, <<",">>, "1"),
     DataLine(<<>>, "mactop_power_watts", <<Item("flag", ""), Item("component", "cpu")>>, <<",">>, "1")}

OtherLines ==
    {OtherLine("blank", <<>>),
     OtherLine("blank", <<" ">>),
     OtherLine("comment", <<"#", " ", "mactop_cpu_usage_percent", " ", "1">>),
     OtherLine("malformed", <<"mactop_cpu_usage_percent">>),
     OtherLine("malformed", <<"mactop_gpu_usage_percent", " ", "1", " ", "2">>)}

Lines == UnlabeledLines \cup OneLabelLines \cup TwoLabelLines \cup OtherLines

Texts == UNION {[1..n -> {l.tokens : l \in Lines}] : n \in 0..MaxLines}

InitParse ==
    /\ AnalysisIdle
    /\ RecordIdle /\ ViewIdle
    /\ last = "init"
    /\ text \in Texts
    /\ results = Idle
    /\ file_paths = Idle /\ combined_df = Idle
    /\ data_dir = Idle /\ date_range = Idle /\ csv_files = Idle
    /\ analysis_results = Idle

MonitorParseMetrics ==
    /\ last = "init"
    /\ results' = parse_metrics("mactop_monitor.parse_metrics", text)
    /\ last' = "mactop_monitor.parse_metrics"
    /\ UNCHANGED <<text, file_paths, combined_df, data_dir, date_range, csv_files,
                   analysis_results>>
    /\ UNCHANGED analysisVars
    /\ UNCHANGED <<recordVars, viewVars>>

StartMonitorParseMetrics ==
    /\ last = "init"
    /\ results' = parse_metrics("start_monitor.parse_metrics", text)
    /\ last' = "start_monitor.parse_metrics"
    /\ UNCHANGED <<text, file_paths, combined_df, data_dir, date_range, csv_files,
                   analysis_results>>
    /\ UNCHANGED analysisVars
    /\ UNCHANGED <<recordVars, viewVars>>

FetchAndParseMetrics ==
    /\ last = "init"
    /\ results' = parse_metrics("record.fetch_and_parse_metrics", text)
    /\ last' = "record.fetch_and_parse_metrics"
    /\ UNCHANGED <<text, file_paths, combined_df, data_dir, date_range, csv_files,
                   analysis_results>>
    /\ UNCHANGED analysisVars
    /\ UNCHANGED <<recordVars, viewVars>>

NextParse ==
    \/ MonitorParseMetrics
    \/ StartMonitorParseMetrics
    \/ FetchAndParseMetrics

SpecParse == InitParse /\ [][NextParse]_vars

(***************************************************************************)
(* Claims about the Exposition-Format Parser.  What a line means is read   *)
(* from the parts it was written from, not from a parser.                  *)
(***************************************************************************)
Parsed == last \in Parsers

LineOf(tokens) == CHOOSE l \in Lines : l.tokens = tokens

\* a data line whose value is a number
GoodLine(l) == l.kind = "data" /\ l.value \in {"1", "2"}
NumberOf(l) == IF l.value = "1" THEN 1 ELSE 2

\* the recognized (metric name, label key, label value) triples
Recognized ==
    {<<"mactop_memory_gb", "type", "used", "memory_used">>,
     <<"mactop_memory_gb", "type", "total", "memory_total">>,
     <<"mactop_memory_gb", "type", "swap_used", "memory_swap_used">>,
     <<"mactop_memory_gb", "type", "swap_total", "memory_swap_total">>,
     <<"mactop_power_watts", "component", "cpu", "power_cpu">>,
     <<"mactop_power_watts", "component", "gpu", "power_gpu">>,
     <<"mactop_power_watts", "component", "total", "power_total">>}

LabeledFields == {<<t[4]>> : t \in Recognized}

\* the canonical fields of the recognized triples a line carries
FieldsOf(l) ==
    {<<t[4]>> : t \in {r \in Recognized :
        /\ r[1] = l.name
        /\ \E i \in 1..Len(l.labels) : l.labels[i] = Item(r[2], r[3])}}

\* the canonical name of an unlabeled line
Renamed(name) ==
    CASE name = "mactop_cpu_usage_percent" -> <<"cpu_usage_percent">>
      [] name = "mactop_gpu_usage_percent" -> <<"gpu_usage_percent">>
      [] name = "mactop_gpu_freq_mhz" -> <<"gpu_freq_mhz">>
      [] OTHER -> <<name>>

\* the lines of the text that give field f, and the last of them
LabeledCarriers(f) ==
    {i \in 1..Len(text) :
        LET l == LineOf(text[i])
        IN  GoodLine(l) /\ l.labels # <<>> /\ f \in FieldsOf(l)}

UnlabeledCarriers(f) ==
    {i \in 1..Len(text) :
        LET l == LineOf(text[i])
        IN  GoodLine(l) /\ l.labels = <<>> /\ Renamed(l.name) = f}

LastOf(S) == CHOOSE i \in S : \A j \in S : j <= i

UnlabeledFields == {Renamed(l.name) : l \in {x \in Lines : x.kind = "data" /\ x.labels = <<>>}}

\* C11: the parsers of mactop_monitor.py and start_monitor.py map every
\* labeled data line that carries a recognized (metric name, label key,
\* label value) triple to its canonical field with the line's value,
\* whatever other labels the line carries, and a labeled line with no
\* recognized triple adds no field.
C11_LabeledLinesMapped ==
    last \in {"mactop_monitor.parse_metrics", "start_monitor.parse_metrics"} =>
        /\ \A f \in LabeledFields :
              IF LabeledCarriers(f) = {}
              THEN f \notin DOMAIN results.metrics
              ELSE /\ f \in DOMAIN results.metrics
                   /\ results.metrics[f] = NumberOf(LineOf(text[LastOf(LabeledCarriers(f))]))
        /\ DOMAIN results.metrics \subseteq LabeledFields \cup UnlabeledFields

\* the text without its comment lines, blank lines, lines that are no
\* data line and data lines whose value is no float
RECURSIVE GoodLinesOnly(_)
GoodLinesOnly(lines) ==
    IF lines = <<>> THEN <<>>
    ELSE IF GoodLine(LineOf(Head(lines)))
         THEN <<Head(lines)>> \o GoodLinesOnly(Tail(lines))
         ELSE GoodLinesOnly(Tail(lines))

\* C12: no parser raises, whatever the text; the result is the result of
\* parsing the text with its comment, blank, malformed and non-numeric
\* lines removed, so such a line gives no field and changes no other.
C12_BadLinesSkipped ==
    Parsed =>
        /\ results.raised = ""
        /\ results.metrics = parse_metrics(last, GoodLinesOnly(text)).metrics
        /\ GoodLinesOnly(text) = <<>> => results.metrics = <<>>

\* a non-numeric line first, a good line after it: the good line is parsed
C12_Witness ==
    /\ last = "mactop_monitor.parse_metrics"
    /\ text = <<DataLine(<<>>, "mactop_cpu_usage_percent", <<>>, <<>>, "1.2.3").tokens,
                DataLine(<<>>, "mactop_gpu_usage_percent", <<>>, <<>>, "2").tokens>>
    /\ results.raised = ""
    /\ DOMAIN results.metrics = {<<"gpu_usage_percent">>}
    /\ results.metrics[<<"gpu_usage_percent">>] = 2

\* C13: for an unlabeled data line every parser maps name -> value, the
\* three tool-specific names being renamed to cpu_usage_percent,
\* gpu_usage_percent and gpu_freq_mhz.
C13_UnlabeledRenamed ==
    Parsed =>
        \A f \in UnlabeledFields :
            IF UnlabeledCarriers(f) = {}
            THEN f \notin DOMAIN results.metrics
            ELSE /\ f \in DOMAIN results.metrics
                 /\ results.metrics[f] = NumberOf(LineOf(text[LastOf(UnlabeledCarriers(f))]))

(***************************************************************************)
(* Record Store / Loader: analyze.load_data.  A file is either unreadable  *)
(* (pl.scan_csv raises) or a CSV whose rows hold a timestamp text and the  *)
(* metric cell.  A timestamp text is its date-time digits (the minute they *)
(* name, none when they name no instant), the separator between date and   *)
(* time and the fractional seconds after a "." .  A datetime is the pair    *)
(* <<minute, microsecond>>.                                                 *)
(***************************************************************************)
MaxFiles == 2      \* files given to load_data
MaxFileRows == 2   \* rows of one CSV file

TimestampText(minute, sep, frac) == [minute |-> minute, sep |-> sep, frac |-> frac]

\* str.strptime(pl.Datetime, "%Y-%m-%d %H:%M:%S") on one value
IsStandard(ts) == ts.minute # <<>> /\ ts.sep = " " /\ ts.frac = <<>>

\* str.strptime(pl.Datetime, "%Y-%m-%dT%H:%M:%S.%f") on one value
IsIsoWithFraction(ts) == ts.minute # <<>> /\ ts.sep = "T" /\ ts.frac # <<>>

\* the datetime a matching text names
Datetime(ts) == <<ts.minute[1], IF ts.frac = <<>> THEN 0 ELSE ts.frac[1]>>

\* str.replace("T", " ").str.split(".", n=1).list.first()
TimestampClean(ts) == [minute |-> ts.minute, sep |-> " ", frac |-> <<>>]

\* with_columns(pl.col("timestamp").str.strptime(...)): the column parsed
WithDatetimes(rows) ==
    [i \in 1..Len(rows) |->
        [timestamp |-> Datetime(rows[i].timestamp),
         cpu_usage_percent |-> rows[i].cpu_usage_percent]]

\* the timestamp column replaced by timestamp_clean
WithCleanTimestamps(rows) ==
    [i \in 1..Len(rows) |->
        [timestamp |-> TimestampClean(rows[i].timestamp),
         cpu_usage_percent |-> rows[i].cpu_usage_percent]]

\* (mutant) pl.concat(dfs).unique(): equal rows kept once
RECURSIVE ConcatUnique(_)
ConcatUnique(dfs) ==
    IF dfs = <<>> THEN <<>>
    ELSE LET rest == ConcatUnique(Tail(dfs))
         IN  SelectSeq(Head(dfs), LAMBDA r : \A j \in 1..Len(rest) : rest[j] # r) \o rest

\* pl.concat(dfs): the frames one after the other
RECURSIVE Concat(_)
Concat(dfs) ==
    IF dfs = <<>> THEN <<>> ELSE Head(dfs) \o Concat(Tail(dfs))

\* (mutant) a file that cannot be read ends the load
OnReadErrorRaise == "raise"

\* except Exception as e: print(...) -- the file is skipped
OnReadError == "skip"

Readable(file) == file.kind = "csv"

\* the timestamp column parsed: the standard format, then ISO with
\* fractional seconds, then the cleaned text in the standard format
ParseTimestamps(rows) ==
    IF \A i \in 1..Len(rows) : IsStandard(rows[i].timestamp)
    THEN [raised |-> "", rows |-> WithDatetimes(rows)]
    ELSE IF \A i \in 1..Len(rows) : IsIsoWithFraction(rows[i].timestamp)
    THEN [raised |-> "", rows |-> WithDatetimes(rows)]
    ELSE LET cleaned == WithCleanTimestamps(rows)
         IN  IF \A i \in 1..Len(cleaned) : IsStandard(cleaned[i].timestamp)
             THEN [raised |-> "", rows |-> WithDatetimes(cleaned)]
             ELSE [raised |-> "ComputeError", rows |-> <<>>]

load_data(paths) ==
    IF paths = <<>> THEN [raised |-> "ValueError", rows |-> <<>>]
    ELSE IF OnReadError = "raise" /\ \E i \in 1..Len(paths) : ~Readable(paths[i])
    THEN [raised |-> "FileNotFoundError", rows |-> <<>>]
    ELSE LET read == SelectSeq(paths, Readable)
             dfs == [i \in 1..Len(read) |-> read[i].rows]
         IN  IF dfs = <<>> THEN [raised |-> "ValueError", rows |-> <<>>]
             ELSE ParseTimestamps(Concat(dfs))

\* what the files hold: two instants half an hour apart, written in the
\* format of recording_session, in the ISO format of mactop_monitor, or not
\* as a date at all
TimestampTexts ==
    {TimestampText(<<28008510>>, " ", <<>>),
     TimestampText(<<28008480>>, " ", <<>>),
     TimestampText(<<28008510>>, "T", <<250000>>),
     TimestampText(<<>>, " ", <<>>)}

FileRows ==
    UNION {[1..n -> [timestamp : TimestampTexts, cpu_usage_percent : {<<10>>}]] :
              n \in 0..MaxFileRows}

Files ==
    {[kind |-> "missing", rows |-> <<>>]} \cup {[kind |-> "csv", rows |-> r] : r \in FileRows}

InitLoad ==
    /\ AnalysisIdle
    /\ RecordIdle /\ ViewIdle
    /\ last = "init"
    /\ file_paths \in UNION {[1..n -> Files] : n \in 0..MaxFiles}
    /\ combined_df = Idle
    /\ text = Idle /\ results = Idle
    /\ data_dir = Idle /\ date_range = Idle /\ csv_files = Idle
    /\ analysis_results = Idle

LoadData ==
    /\ last = "init"
    /\ combined_df' = load_data(file_paths)
    /\ last' = "load_data"
    /\ UNCHANGED <<text, results, file_paths, data_dir, date_range, csv_files,
                   analysis_results>>
    /\ UNCHANGED analysisVars
    /\ UNCHANGED <<recordVars, viewVars>>

NextLoad == LoadData

SpecLoad == InitLoad /\ [][NextLoad]_vars

(***************************************************************************)
(* Claims about the Loader.                                                *)
(***************************************************************************)
Loaded == last = "load_data"

ReadableFiles == SelectSeq(file_paths, LAMBDA f : f.kind = "csv")

\* the rows of the readable files, file after file
RECURSIVE RowsOf(_)
RowsOf(files) ==
    IF files = <<>> THEN <<>> ELSE Head(files).rows \o RowsOf(Tail(files))

RECURSIVE CountRows(_)
CountRows(files) ==
    IF files = <<>> THEN 0 ELSE Len(Head(files).rows) + CountRows(Tail(files))

\* the timestamps of a file name instants, in either accepted format
Normalizable(file) ==
    \A i \in 1..Len(file.rows) : file.rows[i].timestamp.minute # <<>>

\* the instants of a sequence of rows
Minutes(rows) == [i \in 1..Len(rows) |-> rows[i].timestamp.minute[1]]
LoadedMinutes == [i \in 1..Len(combined_df.rows) |-> combined_df.rows[i].timestamp[1]]

NormalizableFiles == SelectSeq(ReadableFiles, Normalizable)

\* C16: when the timestamps of one batch cannot be normalized, load_data
\* excludes only that batch and returns the rows of the remaining batches
\* with their timestamps as datetimes; it fails only when every batch is
\* excluded.
C16_BadBatchExcluded ==
    Loaded =>
        IF NormalizableFiles = <<>>
        THEN combined_df.raised # ""
        ELSE /\ combined_df.raised = ""
             /\ LoadedMinutes = Minutes(RowsOf(NormalizableFiles))

\* C17: the dataset load_data returns is time-ordered, whatever the order
\* of the files and of the rows inside them.
C17_TimeOrdered ==
    (Loaded /\ combined_df.raised = "") =>
        \A i \in 1..(Len(combined_df.rows) - 1) :
            LoadedMinutes[i] <= LoadedMinutes[i + 1]

(***************************************************************************)
(* File discovery and the analysis pipeline: analyze.find_csv_files,       *)
(* analyze.run_analysis and the analyze command of cli.py.  A file name is *)
(* its prefix, the date text after it (year, month, day as written) and    *)
(* the pieces that follow; a date is <<year, month, day>> and None is <<>>.*)
(***************************************************************************)
MaxDirFiles == 3   \* files in the data directory

FileName(prefix, date_text, suffix) ==
    [prefix |-> prefix, date |-> date_text, suffix |-> suffix]

\* date.fromisoformat raises ValueError for a day the calendar does not have
DaysInMonth(y, m) ==
    IF m \in {4, 6, 9, 11} THEN 30
    ELSE IF m = 2
         THEN IF y % 4 = 0 /\ (y % 100 # 0 \/ y % 400 = 0) THEN 29 ELSE 28
    ELSE 31

IsValidDate(d) == d[2] \in 1..12 /\ d[3] \in 1..DaysInMonth(d[1], d[2])

\* file_date >= start_date, file_date <= end_date
DateLeq(a, b) ==
    \/ a[1] < b[1]
    \/ a[1] = b[1] /\ a[2] < b[2]
    \/ a[1] = b[1] /\ a[2] = b[2] /\ a[3] <= b[3]

\* data_dir.glob("*.csv")
GlobCsv(name) == name.suffix[Len(name.suffix)] = ".csv"

\* data_dir.glob("mactop_data_<today>.csv")
GlobToday(name, today) ==
    name.prefix = "mactop_data_" /\ name.date = today /\ name.suffix = <<".csv">>

\* (start_date is None or file_date >= start_date) and
\* (end_date is None or file_date <= end_date)
InRange(file_date, start_date, end_date) ==
    /\ (start_date = <<>> \/ DateLeq(start_date, file_date))
    /\ (end_date = <<>> \/ DateLeq(file_date, end_date))

\* re.compile(r"mactop_data_(\d{4}-\d{2}-\d{2})\.csv").match(file_path.name):
\* the pattern is matched at the start of the name, what follows .csv is free
DatePatternMatch(name) == name.prefix = "mactop_data_" /\ name.suffix[1] = ".csv"

\* the files find_csv_files returns, in no particular order
find_csv_files(dir, start_date, end_date, today) ==
    IF start_date = <<>> /\ end_date = <<>>
    THEN {f \in dir : GlobToday(f.name, today)}
    ELSE {f \in dir :
            /\ GlobCsv(f.name)
            /\ DatePatternMatch(f.name)
            /\ IsValidDate(f.name.date)
            /\ InRange(f.name.date, start_date, end_date)}

\* list(data_dir.glob(...)): the order of the directory listing is arbitrary
Listings(S) ==
    {l \in [1..Cardinality(S) -> S] : \A i, j \in 1..Cardinality(S) : l[i] = l[j] => i = j}

\* the loaded rows as the analysis functions read them
AsHeatRows(rows) ==
    [i \in 1..Len(rows) |->
        [timestamp |-> rows[i].timestamp[1], cpu_usage_percent |-> rows[i].cpu_usage_percent]]

NoDataResult ==
    [raised |-> "", error |-> "No data files found for the specified date range.",
     statistics |-> <<>>, heatmaps |-> <<>>, sufficiency |-> <<>>]

Raised(exception) ==
    [raised |-> exception, error |-> "",
     statistics |-> <<>>, heatmaps |-> <<>>, sufficiency |-> <<>>]

\* run_analysis after find_csv_files returned found (the frame holds the
\* timestamp and cpu_usage_percent columns, so no derived column is added)
run_analysis(found, method) ==
    IF found = <<>> THEN NoDataResult
    ELSE LET loaded == load_data([i \in 1..Len(found) |-> [kind |-> "csv", rows |-> found[i].rows]])
         IN  IF loaded.raised # "" THEN Raised(loaded.raised)
             ELSE LET col == [i \in 1..Len(loaded.rows) |-> loaded.rows[i].cpu_usage_percent]
                      statistics == [m \in {Metric} |-> analyze_calculate_statistics(col, method)]
                      heatmaps ==
                          [m \in {Metric} |->
                              prepare_heatmap_data([columns |-> {"timestamp", Metric},
                                                    rows |-> AsHeatRows(loaded.rows)])]
                      scored == calculate_sufficiency_metrics(statistics)
                  IN  IF scored.raised # "" THEN Raised(scored.raised)
                      ELSE [raised |-> "", error |-> "", statistics |-> statistics,
                            heatmaps |-> heatmaps, sufficiency |-> scored.sufficiency]

\* start_date and end_date as run_analysis hands them to find_csv_files
DefaultedRange(start_date, end_date, today) ==
    IF start_date = <<>> /\ end_date = <<>>
    THEN [start_date |-> today, end_date |-> today]
    ELSE [start_date |-> start_date, end_date |-> end_date]

\* the analyze command: what it prints for the outcome of run_analysis
CliOutput(outcome) ==
    IF outcome.raised # "" THEN "Error analyzing data"
    ELSE IF outcome.error # "" THEN "Error"
    ELSE "dashboard"

\* the analyze command from the return of run_analysis on: what click.echo
\* prints, the calls of display_dashboard and the exception that leaves
\* the command ("" when it returns)
analyzeUncaught(outcome, dashboard_raised) ==
    IF outcome.raised # ""
    THEN [echo |-> <<>>, display_dashboard |-> <<>>, raised |-> outcome.raised]
    ELSE IF outcome.error # ""
    THEN [echo |-> <<"Error", ": ", outcome.error>>, display_dashboard |-> <<>>,
          raised |-> ""]
    ELSE [echo |-> <<>>, display_dashboard |-> <<outcome>>, raised |-> dashboard_raised]

analyze(outcome, dashboard_raised) ==
    IF outcome.raised = "FileNotFoundError"
    THEN [echo |-> <<"Error", ": ", outcome.raised>>, display_dashboard |-> <<>>,
          raised |-> ""]
    ELSE IF outcome.raised # ""
    THEN [echo |-> <<"Error", " analyzing data: ", outcome.raised>>,
          display_dashboard |-> <<>>, raised |-> ""]
    ELSE IF outcome.error # ""
    THEN [echo |-> <<"Error", ": ", outcome.error>>, display_dashboard |-> <<>>,
          raised |-> ""]
    ELSE [echo |-> IF dashboard_raised = "" THEN <<>>
                   ELSE <<"Error", " analyzing data: ", dashboard_raised>>,
          display_dashboard |-> <<outcome>>, raised |-> ""]

Today == <<2023, 4, 4>>

FileNames ==
    {FileName("mactop_data_", d, <<".csv">>) :
        d \in {<<2023, 4, 3>>, <<2023, 4, 4>>, <<2023, 4, 5>>, <<2023, 4, 31>>}}
    \cup {FileName("mactop_data_", <<2023, 4, 4>>, <<".csv", ".bak", ".csv">>),
          FileName("mactop_data_", <<2023, 4, 4>>, <<".txt">>),
          FileName("notes_", <<2023, 4, 4>>, <<".csv">>)}

\* a file written by recording_session: the header alone, or one sample
FileContents ==
    {<<>>,
     <<[timestamp |-> TimestampText(<<28008480>>, " ", <<>>), cpu_usage_percent |-> <<10>>]>>}

Dates == {<<>>, <<2023, 4, 3>>, <<2023, 4, 4>>, <<2023, 4, 5>>}

InitAnalyze ==
    /\ AnalysisIdle
    /\ RecordIdle /\ ViewIdle
    /\ last = "init"
    /\ \E S \in {X \in SUBSET FileNames : Cardinality(X) <= MaxDirFiles} :
          \E content \in [S -> FileContents] :
              data_dir = {[name |-> n, rows |-> content[n]] : n \in S}
    /\ date_range \in [start_date : Dates, end_date : Dates, today : {Today}]
    /\ csv_files = Idle
    /\ analysis_results = Idle
    /\ text = Idle /\ results = Idle
    /\ file_paths = Idle /\ combined_df = Idle

FindCsvFiles ==
    /\ last = "init"
    /\ csv_files' \in Listings(find_csv_files(data_dir, date_range.start_date,
                                              date_range.end_date, date_range.today))
    /\ last' = "find_csv_files"
    /\ UNCHANGED <<text, results, file_paths, combined_df, data_dir, date_range,
                   analysis_results>>
    /\ UNCHANGED analysisVars
    /\ UNCHANGED <<recordVars, viewVars>>

RunAnalysis ==
    /\ last = "init"
    /\ LET range == DefaultedRange(date_range.start_date, date_range.end_date,
                                   date_range.today)
       IN  csv_files' \in Listings(find_csv_files(data_dir, range.start_date,
                                                  range.end_date, date_range.today))
    /\ \E method \in QuantileMethods :
          analysis_results' = [outcome |-> run_analysis(csv_files', method), output |-> ""]
    /\ last' = "run_analysis"
    /\ UNCHANGED <<text, results, file_paths, combined_df, data_dir, date_range>>
    /\ UNCHANGED analysisVars
    /\ UNCHANGED <<recordVars, viewVars>>

CliAnalyze ==
    /\ last = "init"
    /\ LET range == DefaultedRange(date_range.start_date, date_range.end_date,
                                   date_range.today)
       IN  csv_files' \in Listings(find_csv_files(data_dir, range.start_date,
                                                  range.end_date, date_range.today))
    /\ \E method \in QuantileMethods, dashboard_raised \in {"", "KeyError"} :
          \* run_analysis, or the stub of it that raises FileNotFoundError
          \E outcome \in {run_analysis(csv_files', method), Raised("FileNotFoundError")} :
              analysis_results' = [outcome |-> outcome, output |-> CliOutput(outcome),
                                   cli |-> analyze(outcome, dashboard_raised)]
    /\ last' = "cli.analyze"
    /\ UNCHANGED <<text, results, file_paths, combined_df, data_dir, date_range>>
    /\ UNCHANGED analysisVars
    /\ UNCHANGED <<recordVars, viewVars>>

NextAnalyze ==
    \/ FindCsvFiles
    \/ RunAnalysis
    \/ CliAnalyze

SpecAnalyze == InitAnalyze /\ [][NextAnalyze]_vars

(***************************************************************************)
(* Claims about file discovery and the pipeline.                           *)
(***************************************************************************)
\* a file named mactop_data_YYYY-MM-DD.csv, and nothing else
DailyName(name) == name.prefix = "mactop_data_" /\ name.suffix = <<".csv">>

Found == {csv_files[i] : i \in 1..Len(csv_files)}

\* C18: run_analysis returns a mapping with an 'error' message and empty
\* 'statistics', 'heatmaps' and 'sufficiency', and raises nothing, when no
\* CSV file matches the date range or the matching files hold no data row.
C18_NoDataIsStructured ==
    (last = "run_analysis" /\ \A f \in Found : f.rows = <<>>) =>
        /\ analysis_results.outcome.raised = ""
        /\ analysis_results.outcome.error # ""
        /\ DOMAIN analysis_results.outcome.statistics = {}
        /\ DOMAIN analysis_results.outcome.heatmaps = {}
        /\ DOMAIN analysis_results.outcome.sufficiency = {}

\* C19: with a date range find_csv_files returns exactly the files named
\* mactop_data_YYYY-MM-DD.csv whose date is valid and lies between
\* start_date and end_date, both inclusive, a missing bound being
\* unbounded; with no range it returns today's file if it exists.
C19_ExactlyTheRange ==
    last = "find_csv_files" =>
        Found =
            IF date_range.start_date = <<>> /\ date_range.end_date = <<>>
            THEN {f \in data_dir : DailyName(f.name) /\ f.name.date = date_range.today}
            ELSE {f \in data_dir :
                    /\ DailyName(f.name)
                    /\ IsValidDate(f.name.date)
                    /\ date_range.start_date # <<>> => DateLeq(date_range.start_date, f.name.date)
                    /\ date_range.end_date # <<>> => DateLeq(f.name.date, date_range.end_date)}

\* C20: for the analyze command the end date defaults to the start date:
\* with only --start-date D the analysis covers only the file of day D,
\* with neither date only today's file.
C20_EndDefaultsToStart ==
    (last = "cli.analyze" /\ date_range.end_date = <<>>) =>
        \A f \in Found :
            f.name.date = IF date_range.start_date = <<>>
                          THEN date_range.today
                          ELSE date_range.start_date

(***************************************************************************)
(* The recorder: record.py.  A CSV file is the sequence of its rows, a row *)
(* the sequence of its cells and a cell a text: a sequence of tokens, the  *)
(* empty string being <<>>.  The data directory maps the path of every     *)
(* file that exists to its content.  The wall clock counts minutes, as the *)
(* timestamps of the loader do.                                            *)
(***************************************************************************)
batch_size == 2    \* samples of a batch (60 by default)
MaxTicks == 4      \* minutes of recording
MaxSamples == 3    \* samples fetched in all

EXPECTED_METRIC_FIELDS ==
    <<(<<"timestamp">>), <<"cpu_usage_percent">>, <<"gpu_usage_percent">>,
      <<"memory_used">>, <<"memory_total">>, <<"memory_swap_used">>>>

Digit(n) == <<"0", "1", "2", "3", "4", "5", "6", "7", "8", "9">>[n + 1]

\* %m, %d, %H, %M: two digits; %Y: four
Pad2(n) == Digit(n \div 10) \o Digit(n % 10)
Pad4(n) == Pad2(n \div 100) \o Pad2(n % 100)

\* date.today() at a minute of April 2023
DateOf(minute) == <<2023, 4, 3 + (minute - MondayRef) \div 1440>>

\* "{date:%Y-%m-%d}"
DateText(d) == <<Pad4(d[1]), "-", Pad2(d[2]), "-", Pad2(d[3])>>

\* datetime.now().strftime("%Y-%m-%d %H:%M:%S")
Strftime(minute) ==
    DateText(DateOf(minute))
        \o <<" ", Pad2((minute % 1440) \div 60), ":", Pad2(minute % 60), ":", "00">>

\* data_dir / CSV_FILENAME_TEMPLATE.format(date=file_date)
get_daily_csv_path(file_date) == FileName("mactop_data_", file_date, <<".csv">>)

\* what requests.get answers: a RequestException, or a status and a body
Response(raised, status_code, body) ==
    [raised |-> raised, status_code |-> status_code, text |-> body]

\* a failed fetch is None; the mapping parsed from the body otherwise
fetch_and_parse_metricsAnyStatus(response) ==
    IF response.raised # "" THEN None
    ELSE parse_metrics("record.fetch_and_parse_metrics", response.text).metrics

fetch_and_parse_metrics(response) ==
    IF response.raised # "" THEN None
    ELSE IF response.status_code # 200 THEN None
    ELSE parse_metrics("record.fetch_and_parse_metrics", response.text).metrics

\* {"timestamp": ..., **metrics}: a key of metrics wins
WithTimestamp(timestamp, metrics) ==
    [k \in DOMAIN metrics \cup {<<"timestamp">>} |->
        IF k \in DOMAIN metrics THEN metrics[k] ELSE timestamp]

\* csv.writer writes str(value): a text as it is, the float 1.0 as "1.0"
CellText(field, value) ==
    IF field = <<"timestamp">> THEN value ELSE <<Digit(value) \o ".0">>

\* row = [metrics.get(field, '') for field in fields]
RowOfPresent(metrics, fields) ==
    LET present == SelectSeq(fields, LAMBDA f : f \in DOMAIN metrics)
    IN  [i \in 1..Len(present) |-> CellText(present[i], metrics[present[i]])]

Row(metrics, fields) ==
    [i \in 1..Len(fields) |->
        IF fields[i] \in DOMAIN metrics
        THEN CellText(fields[i], metrics[fields[i]])
        ELSE <<>>]

\* what open(file_path) reads; open(file_path, 'a') creates a missing file
Content(dir, file_path) == IF file_path \in DOMAIN dir THEN dir[file_path] ELSE <<>>

ensure_csv_headerIfMissing(dir, file_path, fields) ==
    IF file_path \notin DOMAIN dir THEN Put(dir, file_path, <<fields>>) ELSE dir

ensure_csv_headerAlways(dir, file_path, fields) ==
    Put(dir, file_path, Append(Content(dir, file_path), fields))

\* not file_path.exists() or file_path.stat().st_size == 0
ensure_csv_header(dir, file_path, fields) ==
    IF file_path \notin DOMAIN dir \/ dir[file_path] = <<>>
    THEN Put(dir, file_path, <<fields>>)
    ELSE dir

append_metrics_batch_to_csv(dir, file_path, metrics_batch, fields) ==
    Put(dir, file_path,
        Content(dir, file_path)
            \o [i \in 1..Len(metrics_batch) |-> Row(metrics_batch[i], fields)])

\* len(metrics_buffer) >= batch_size
BufferFullLate(buffer) == Len(buffer) > batch_size

BufferFull(buffer) == Len(buffer) >= batch_size

(***************************************************************************)
(* recording_session as a state machine.  pc is the line the session       *)
(* stands at; Ctrl+C raises KeyboardInterrupt at any of them, between two  *)
(* rows of a batch being written too, and the finally clause runs.         *)
(***************************************************************************)
\* 23:58 on 2023-04-03
FirstMinute == MondayRef + 1438

CpuLine(v) == <<"cpu_usage_percent", " ", v>>
GpuLine(v) == <<"mactop_gpu_usage_percent", " ", v>>

Responses ==
    {Response("ConnectionError", 0, <<>>),
     Response("", 500, <<CpuLine("1")>>),
     Response("", 200, <<CpuLine("1")>>),
     Response("", 200, <<CpuLine("2"), GpuLine("1")>>),
     Response("", 200, <<(<<"#", " ", "cpu_usage_percent", " ", "1">>)>>)}

Failed(response) == response.raised # "" \/ response.status_code # 200

InitRecord ==
    /\ AnalysisIdle
    /\ IngestIdle
    /\ ViewIdle
    /\ last = "init"
    /\ pc = "stopped"
    /\ now = FirstMinute
    /\ metrics_buffer = <<>>
    /\ csv_path = get_daily_csv_path(<<>>)
    /\ file_content = <<>>
    /\ fetched = <<>>

\* lines 144-155: mactop is found or started, the day's file gets its header
StartSession ==
    /\ pc = "stopped"
    /\ \E mactop_running \in BOOLEAN :
          IF mactop_running
          THEN /\ csv_path' = get_daily_csv_path(DateOf(now))
               /\ file_content' = ensure_csv_header(file_content, csv_path',
                                                    EXPECTED_METRIC_FIELDS)
               /\ metrics_buffer' = <<>>
               /\ pc' = "fetch"
               /\ last' = "start"
          ELSE /\ UNCHANGED <<csv_path, file_content, metrics_buffer, pc>>
               /\ last' = "could not start mactop"
    /\ UNCHANGED <<now, fetched>>
    /\ UNCHANGED <<analysisVars, ingestVars, viewVars>>

\* lines 162-175: one fetch, the sample stamped and buffered
Fetch ==
    /\ pc = "fetch"
    /\ now < FirstMinute + MaxTicks
    /\ \E response \in Responses :
          LET metrics == fetch_and_parse_metrics(response)
          IN
          /\ IF DOMAIN metrics # {}
              THEN /\ Len(fetched) < MaxSamples
                   /\ LET metrics_with_timestamp == WithTimestamp(Strftime(now), metrics)
                      IN  /\ metrics_buffer' = Append(metrics_buffer, metrics_with_timestamp)
                          /\ fetched' = Append(fetched, metrics_with_timestamp)
                   /\ pc' = IF BufferFull(metrics_buffer') THEN "flush" ELSE "sleep"
              ELSE /\ UNCHANGED <<metrics_buffer, fetched>>
                   /\ pc' = "sleep"
          /\ last' = IF Failed(response) THEN "fetch failed"
                     ELSE IF DOMAIN metrics = {} THEN "fetch empty"
                     ELSE "fetch"
    /\ UNCHANGED <<now, csv_path, file_content>>
    /\ UNCHANGED <<analysisVars, ingestVars, viewVars>>

\* line 176
Flush ==
    /\ pc = "flush"
    /\ file_content' = append_metrics_batch_to_csv(file_content, csv_path, metrics_buffer,
                                                   EXPECTED_METRIC_FIELDS)
    /\ pc' = "reset"
    /\ last' = "flush"
    /\ UNCHANGED <<now, metrics_buffer, csv_path, fetched>>
    /\ UNCHANGED <<analysisVars, ingestVars, viewVars>>

\* line 177
Reset ==
    /\ pc = "reset"
    /\ metrics_buffer' = <<>>
    /\ pc' = "rotate"
    /\ last' = "reset"
    /\ UNCHANGED <<now, csv_path, file_content, fetched>>
    /\ UNCHANGED <<analysisVars, ingestVars, viewVars>>

\* lines 179-181
Rotate ==
    /\ pc = "rotate"
    /\ LET new_csv_path == get_daily_csv_path(DateOf(now))
       IN  IF new_csv_path # csv_path
           THEN csv_path' = new_csv_path /\ pc' = "header"
           ELSE csv_path' = csv_path /\ pc' = "sleep"
    /\ last' = "rotate"
    /\ UNCHANGED <<now, metrics_buffer, file_content, fetched>>
    /\ UNCHANGED <<analysisVars, ingestVars, viewVars>>

\* line 182
Header ==
    /\ pc = "header"
    /\ file_content' = ensure_csv_header(file_content, csv_path, EXPECTED_METRIC_FIELDS)
    /\ pc' = "sleep"
    /\ last' = "header"
    /\ UNCHANGED <<now, metrics_buffer, csv_path, fetched>>
    /\ UNCHANGED <<analysisVars, ingestVars, viewVars>>

\* line 185: time.sleep(interval), a minute
Sleep ==
    /\ pc = "sleep"
    /\ now' = now + 1
    /\ pc' = "fetch"
    /\ last' = "sleep"
    /\ UNCHANGED <<metrics_buffer, csv_path, file_content, fetched>>
    /\ UNCHANGED <<analysisVars, ingestVars, viewVars>>

\* lines 187-192: KeyboardInterrupt wherever the loop stands, then finally;
\* at line 176 the first rows of the batch may be on their way to the file
Interrupt ==
    /\ pc \in {"fetch", "flush", "reset", "rotate", "header", "sleep"}
    /\ \E written \in 0..(IF pc = "flush" THEN Len(metrics_buffer) - 1 ELSE 0) :
          LET partial == IF written = 0 THEN file_content
                         ELSE append_metrics_batch_to_csv(
                                  file_content, csv_path,
                                  SubSeq(metrics_buffer, 1, written),
                                  EXPECTED_METRIC_FIELDS)
          IN  file_content' =
                  IF metrics_buffer # <<>>
                  THEN append_metrics_batch_to_csv(partial, csv_path, metrics_buffer,
                                                   EXPECTED_METRIC_FIELDS)
                  ELSE partial
    /\ pc' = "stopped"
    /\ last' = "interrupt"
    /\ UNCHANGED <<now, metrics_buffer, csv_path, fetched>>
    /\ UNCHANGED <<analysisVars, ingestVars, viewVars>>

NextRecord ==
    \/ StartSession
    \/ Fetch
    \/ Flush
    \/ Reset
    \/ Rotate
    \/ Header
    \/ Sleep
    \/ Interrupt

SpecRecord == InitRecord /\ [][NextRecord]_vars

\* the loop runs on: a sleep that has begun ends
SpecRecordLive == SpecRecord /\ WF_vars(Sleep)

(***************************************************************************)
(* The two CSV functions of the recorder on their own: a file that is      *)
(* missing, empty, or holds rows already, and a batch of samples.          *)
(***************************************************************************)
MaxBatch == 2      \* samples of a batch handed to append_metrics_batch_to_csv
MaxCsvRows == 4    \* rows of the file

Samples ==
    {WithTimestamp(Strftime(FirstMinute), fetch_and_parse_metrics(r)) :
        r \in {r \in Responses : ~Failed(r)}}
    \cup {fetch_and_parse_metrics(Response("", 200, <<CpuLine("1")>>))}

Batches == UNION {[1..n -> Samples] : n \in 0..MaxBatch}

\* the directory before the call: no file, an empty file, a file of a
\* recording session, a file of something else
Directories ==
    LET file_path == get_daily_csv_path(DateOf(FirstMinute))
        a_row == Row(WithTimestamp(Strftime(FirstMinute - 1),
                                   fetch_and_parse_metrics(Response("", 200, <<CpuLine("2")>>))),
                     EXPECTED_METRIC_FIELDS)
    IN  {<<>>} \cup
        {Put(<<>>, file_path, content) :
            content \in {<<>>, <<EXPECTED_METRIC_FIELDS>>,
                         <<EXPECTED_METRIC_FIELDS, a_row>>, <<a_row>>}}

InitCsv ==
    /\ AnalysisIdle
    /\ IngestIdle
    /\ ViewIdle
    /\ last = "init"
    /\ pc = Idle /\ now = Idle /\ fetched = Idle
    /\ csv_path = get_daily_csv_path(DateOf(FirstMinute))
    /\ file_content \in Directories
    /\ metrics_buffer \in Batches

EnsureCsvHeader ==
    /\ file_content' = ensure_csv_header(file_content, csv_path, EXPECTED_METRIC_FIELDS)
    /\ last' = "ensure_csv_header"
    /\ UNCHANGED <<pc, now, metrics_buffer, csv_path, fetched>>
    /\ UNCHANGED <<analysisVars, ingestVars, viewVars>>

AppendMetricsBatchToCsv ==
    /\ Len(Content(file_content, csv_path)) + Len(metrics_buffer) <= MaxCsvRows
    /\ file_content' = append_metrics_batch_to_csv(file_content, csv_path, metrics_buffer,
                                                   EXPECTED_METRIC_FIELDS)
    /\ last' = "append_metrics_batch_to_csv"
    /\ UNCHANGED <<pc, now, metrics_buffer, csv_path, fetched>>
    /\ UNCHANGED <<analysisVars, ingestVars, viewVars>>

NextCsv ==
    \/ EnsureCsvHeader
    \/ AppendMetricsBatchToCsv

SpecCsv == InitCsv /\ [][NextCsv]_vars

(***************************************************************************)
(* Claims about the recorder.                                              *)
(***************************************************************************)
\* C21: a failed fetch (the endpoint unreachable, a status other than 200)
\* does not end the recording loop: the tick buffers no sample and writes
\* no row, the buffer and the current file are as before, and the loop
\* goes to sleep and comes back to the next fetch unless the user stops it.
C21_FailedFetchSkipped ==
    /\ [][last' = "fetch failed" =>
            /\ metrics_buffer' = metrics_buffer
            /\ fetched' = fetched
            /\ csv_path' = csv_path
            /\ file_content' = file_content
            /\ pc' = "sleep"]_vars
    /\ (last = "fetch failed" ~> (pc = "fetch" \/ pc = "stopped"))

C21_Witness ==
    /\ last = "fetch failed"
    /\ pc = "sleep"
    /\ Len(metrics_buffer) = 1
    /\ csv_path \in DOMAIN file_content

\* the rows of a file that are not the header row
DataRows(content) == SelectSeq(content, LAMBDA row : row # EXPECTED_METRIC_FIELDS)

Earliest(paths) == CHOOSE p \in paths : \A q \in paths : DateLeq(p.date, q.date)

\* the data rows of the files, the files taken by date
RECURSIVE WrittenRows(_)
WrittenRows(paths) ==
    IF paths = {} THEN <<>>
    ELSE DataRows(file_content[Earliest(paths)]) \o WrittenRows(paths \ {Earliest(paths)})

FetchedRows == [i \in 1..Len(fetched) |-> Row(fetched[i], EXPECTED_METRIC_FIELDS)]

\* C22: when the session has been stopped by an interrupt, wherever the
\* loop stood, the rows of the CSV files are the samples fetched, each
\* once and in the order they were fetched.
C22_WrittenExactlyOnce ==
    pc = "stopped" => WrittenRows(DOMAIN file_content) = FetchedRows

\* C23: append_metrics_batch_to_csv leaves the rows the file holds as they
\* are and adds one row per sample after them, in the order of the batch;
\* a row has one cell per header field, in the order of the fields: the
\* text of the sample's value, or the empty string when the sample has no
\* such field; a key that is no header field is not written.
C23_OneRowPerSample ==
    [][last' = "append_metrics_batch_to_csv" =>
        LET before == Content(file_content, csv_path)
            after == file_content'[csv_path]
        IN  /\ Len(after) = Len(before) + Len(metrics_buffer)
            /\ SubSeq(after, 1, Len(before)) = before
            /\ \A i \in 1..Len(metrics_buffer) :
                  /\ Len(after[Len(before) + i]) = Len(EXPECTED_METRIC_FIELDS)
                  /\ \A j \in 1..Len(EXPECTED_METRIC_FIELDS) :
                        after[Len(before) + i][j] =
                            IF EXPECTED_METRIC_FIELDS[j] \in DOMAIN metrics_buffer[i]
                            THEN CellText(EXPECTED_METRIC_FIELDS[j],
                                          metrics_buffer[i][EXPECTED_METRIC_FIELDS[j]])
                            ELSE <<>>]_vars

\* a batch of two samples, one without gpu_usage_percent and with a key
\* that is no header field, appended to a file that held a row
C23_Witness ==
    /\ last = "append_metrics_batch_to_csv"
    /\ Len(metrics_buffer) = 2
    /\ \E i \in 1..2 : <<"mactop_gpu_usage_percent">> \in DOMAIN metrics_buffer[i]
    /\ Len(file_content[csv_path]) = 4

\* C24: ensure_csv_header writes the header row when the file does not
\* exist or is empty and only then; a file with content is left as it is,
\* so a second call changes nothing.
C24_HeaderIffMissingOrEmpty ==
    [][last' = "ensure_csv_header" =>
        /\ IF csv_path \notin DOMAIN file_content \/ Len(file_content[csv_path]) = 0
           THEN file_content'[csv_path] = <<EXPECTED_METRIC_FIELDS>>
           ELSE file_content' = file_content
        /\ ensure_csv_header(file_content', csv_path, EXPECTED_METRIC_FIELDS)
               = file_content']_vars

\* called on a file with rows, the header row among them or not
C24_Witness ==
    /\ last = "ensure_csv_header"
    /\ Len(file_content[csv_path]) = 3
    /\ file_content[csv_path][1] # EXPECTED_METRIC_FIELDS

\* C25: every row a recording session has written is in the file
\* mactop_data_<date>.csv of the date its timestamp begins with, the rows
\* of samples taken after midnight and the rows flushed on stop included.
C25_RowsInTheirDaysFile ==
    \A p \in DOMAIN file_content :
        \A i \in 1..Len(file_content[p]) :
            file_content[p][i] # EXPECTED_METRIC_FIELDS =>
                SubSeq(file_content[p][i][1], 1, 5) = DateText(p.date)

\* C27: at the start of every iteration of the loop the buffer holds
\* fewer than batch_size samples; a tick adds at most one; the batch is
\* written when, and only when, the buffer has reached batch_size, and the
\* buffer is empty after it.
C27_BufferBounded ==
    /\ [](pc = "fetch" => Len(metrics_buffer) < batch_size)
    /\ [][Len(metrics_buffer') <= Len(metrics_buffer) + 1]_vars
    /\ [][last' = "flush" => Len(metrics_buffer) = batch_size]_vars
    /\ []((pc \in {"fetch", "sleep", "rotate", "header", "flush", "reset"}
             /\ Len(metrics_buffer) >= batch_size) => pc \in {"flush", "reset"})
    /\ [](last = "reset" => metrics_buffer = <<>>)

C27_Witness ==
    /\ last = "reset"
    /\ Len(fetched) = batch_size
    /\ Len(file_content[csv_path]) = 1 + batch_size

\* C28: every daily file of the data directory begins with the header row
\* and holds it once, whatever sessions, day changes and flushes there
\* were.
C28_HeaderOnce ==
    \A p \in DOMAIN file_content :
        /\ Len(file_content[p]) >= 1
        /\ file_content[p][1] = EXPECTED_METRIC_FIELDS
        /\ \A i \in 2..Len(file_content[p]) : file_content[p][i] # EXPECTED_METRIC_FIELDS

\* a third session begins on a day whose file holds the rows of two
\* sessions, and the file of the day before is there too
C28_Witness ==
    /\ last = "start"
    /\ Len(file_content[csv_path]) >= 3
    /\ Cardinality(DOMAIN file_content) = 2

(***************************************************************************)
(* Claims about the analyze command.                                       *)
(***************************************************************************)
\* C26: no failure of the analysis leaves the analyze command.  When
\* run_analysis raises, FileNotFoundError or another exception, or returns
\* a result with 'error', the command prints a message with 'Error' and
\* the cause in it, does not call display_dashboard and returns; otherwise
\* display_dashboard is called once, with the result.
C26_FailureContained ==
    last = "cli.analyze" =>
        IF analysis_results.outcome.raised # "" \/ analysis_results.outcome.error # ""
        THEN /\ analysis_results.cli.raised = ""
             /\ analysis_results.cli.display_dashboard = <<>>
             /\ Len(analysis_results.cli.echo) = 3
             /\ analysis_results.cli.echo[1] = "Error"
             /\ analysis_results.cli.echo[3] =
                    IF analysis_results.outcome.raised # ""
                    THEN analysis_results.outcome.raised
                    ELSE analysis_results.outcome.error
        ELSE analysis_results.cli.display_dashboard = <<analysis_results.outcome>>

\* run_analysis raised something other than FileNotFoundError
C26_Witness ==
    /\ last = "cli.analyze"
    /\ analysis_results.outcome.raised \notin {"", "FileNotFoundError"}
    /\ analysis_results.cli.echo[2] = " analyzing data: "

(***************************************************************************)
(* DashboardData of dashboard.py: _load_data, _process_data, reload_data.  *)
(* A value of a row is [kind, text]: a str with its text, a float with the *)
(* text it was converted from, None (the restval of csv.DictReader for a   *)
(* row shorter than the header) or the list csv.DictReader collects the    *)
(* cells beyond the header in, under the key None, written <<>> here.      *)
(***************************************************************************)
MaxCsvLines == 2   \* rows of the file the dashboard reads

PyStr(cell) == [kind |-> "str", text |-> cell]
PyFloat(cell) == [kind |-> "float", text |-> cell]
PyNone == [kind |-> "None", text |-> <<>>]
PyList == [kind |-> "list", text |-> <<>>]
RestKey == <<>>

\* csv.DictReader, one row
DictRow(fieldnames, raw) ==
    [k \in {fieldnames[i] : i \in 1..Len(fieldnames)}
           \cup (IF Len(raw) > Len(fieldnames) THEN {RestKey} ELSE {}) |->
        IF k = RestKey THEN PyList
        ELSE LET i == CHOOSE i \in 1..Len(fieldnames) : fieldnames[i] = k
             IN  IF i <= Len(raw) THEN PyStr(raw[i]) ELSE PyNone]

\* csv.DictReader: the first row names the fields, a blank row is skipped
DictReader(csvfile) ==
    LET rows == SelectSeq(csvfile.rows, LAMBDA raw : raw # <<>>)
    IN  [i \in 1..Len(rows) |-> DictRow(csvfile.fieldnames, rows[i])]

\* if key != "timestamp" and value: row[key] = float(value), ValueError
\* passed over; float(a list) raises TypeError
ConvertRaises(row) == RestKey \in DOMAIN row

Convert(row) ==
    [k \in DOMAIN row |->
        IF k # <<"timestamp">> /\ row[k].kind = "str" /\ FloatParses(row[k].text)
        THEN PyFloat(row[k].text)
        ELSE row[k]]

\* datetime.fromisoformat on the text strftime writes
IsIsoFormat(cell) == \E minute \in (FirstMinute - 2)..(FirstMinute + 2) : Strftime(minute) = cell
FromIsoFormat(cell) ==
    CHOOSE minute \in (FirstMinute - 2)..(FirstMinute + 2) : Strftime(minute) = cell

\* value != ""
NotEmptyString(value) == ~(value.kind = "str" /\ value.text = <<>>)

\* float(value): the exception it raises, "" when none
FloatRaises(value) ==
    IF value.kind = "float" THEN ""
    ELSE IF value.kind = "str" THEN (IF FloatParses(value.text) THEN "" ELSE "ValueError")
    ELSE "TypeError"

FloatOf(value) == FromInt(Float(value.text))

\* the series of a DashboardData
SeriesNames == {"timestamps", "cpu_data", "gpu_data", "ram_data", "swap_data", "power_data"}

\* lines 85-91: a value that is no str adds nothing and raises nothing
ProcessTimestamp(item, self) ==
    IF <<"timestamp">> \notin DOMAIN item
    THEN [self EXCEPT !.timestamps = Append(@, Now)]
    ELSE IF item[<<"timestamp">>].kind # "str" THEN self
    ELSE IF IsIsoFormat(item[<<"timestamp">>].text)
    THEN [self EXCEPT !.timestamps = Append(@, FromIsoFormat(item[<<"timestamp">>].text))]
    ELSE [self EXCEPT !.timestamps = Append(@, Now)]

\* lines 94-97, 100-103, 134-137
ProcessMetric(item, self, key, series) ==
    IF self.raised # "" THEN self
    ELSE IF key \in DOMAIN item /\ NotEmptyString(item[key])
    THEN IF FloatRaises(item[key]) # ""
         THEN [self EXCEPT !.raised = FloatRaises(item[key])]
         ELSE [self EXCEPT ![series] = Append(@, FloatOf(item[key]))]
    ELSE [self EXCEPT ![series] = Append(@, Zero)]

\* lines 106-117, 120-131
ProcessPercent(item, self, total_key, used_key, series) ==
    IF self.raised # "" THEN self
    ELSE IF total_key \in DOMAIN item /\ used_key \in DOMAIN item
    THEN IF NotEmptyString(item[total_key]) /\ FloatRaises(item[total_key]) # ""
         THEN [self EXCEPT !.raised = FloatRaises(item[total_key])]
         ELSE IF NotEmptyString(item[used_key]) /\ FloatRaises(item[used_key]) # ""
         THEN [self EXCEPT !.raised = FloatRaises(item[used_key])]
         ELSE LET total == IF NotEmptyString(item[total_key])
                           THEN FloatOf(item[total_key]) ELSE Zero
                  used == IF NotEmptyString(item[used_key])
                          THEN FloatOf(item[used_key]) ELSE Zero
              IN  [self EXCEPT ![series] =
                      Append(@, IF total[1] > 0
                                THEN RMul(RDiv(used, total), FromInt(100))
                                ELSE Zero)]
    ELSE [self EXCEPT ![series] = Append(@, Zero)]

ProcessItem(item, self) ==
    ProcessMetric(item,
        ProcessPercent(item,
            ProcessPercent(item,
                ProcessMetric(item,
                    ProcessMetric(item, ProcessTimestamp(item, self),
                                  <<"cpu_usage_percent">>, "cpu_data"),
                    <<"gpu_usage_percent">>, "gpu_data"),
                <<"memory_total">>, <<"memory_used">>, "ram_data"),
            <<"memory_swap_total">>, <<"memory_swap_used">>, "swap_data"),
        <<"power_total">>, "power_data")

RECURSIVE ProcessItems(_, _)
ProcessItems(items, self) ==
    IF items = <<>> \/ self.raised # "" THEN self
    ELSE ProcessItems(Tail(items), ProcessItem(Head(items), self))

\* DashboardData._process_data: the series emptied, then filled item by item
DashboardData_process_data(self) ==
    ProcessItems(self.data,
                 [self EXCEPT !.timestamps = <<>>, !.cpu_data = <<>>, !.gpu_data = <<>>,
                              !.ram_data = <<>>, !.swap_data = <<>>, !.power_data = <<>>])

\* the rows read before the first row that raises, all of them if none does
RECURSIVE Converted(_)
Converted(rows) ==
    IF rows = <<>> \/ ConvertRaises(Head(rows)) THEN <<>>
    ELSE <<Convert(Head(rows))>> \o Converted(Tail(rows))

\* DashboardData._load_data
DashboardData_load_data(self, csvfile) ==
    IF ~csvfile.exists THEN [self EXCEPT !.raised = "FileNotFoundError"]
    ELSE LET rows == DictReader(csvfile)
         IN  IF \E i \in 1..Len(rows) : ConvertRaises(rows[i])
             THEN [self EXCEPT !.data = Converted(rows), !.raised = "TypeError"]
             ELSE DashboardData_process_data([self EXCEPT !.data = Converted(rows)])

\* DashboardData.__init__ before it loads
NewDashboardData ==
    [raised |-> "", data |-> <<>>, timestamps |-> <<>>, cpu_data |-> <<>>,
     gpu_data |-> <<>>, ram_data |-> <<>>, swap_data |-> <<>>, power_data |-> <<>>]

CsvFile(exists, fieldnames, rows) ==
    [exists |-> exists, fieldnames |-> fieldnames, rows |-> rows]

\* the cells of a file: nothing, a number, a word, a timestamp
CsvCells == {<<>>, <<"1">>, <<"abc">>, Strftime(FirstMinute)}

\* a row as the file holds it: blank, or one or two cells
RawRows == UNION {[1..n -> CsvCells] : n \in 0..2}

Headers ==
    {<<(<<"timestamp">>), <<"cpu_usage_percent">>>>,
     <<(<<"cpu_usage_percent">>), <<"timestamp">>>>,
     <<(<<"cpu_usage_percent">>)>>}

InitDashboard ==
    /\ AnalysisIdle
    /\ IngestIdle
    /\ RecordIdle
    /\ last = "init"
    /\ peak_info = Idle
    /\ \E fieldnames \in Headers :
          \E rows \in UNION {[1..n -> RawRows] : n \in 0..MaxCsvLines} :
              \E exists \in {e \in BOOLEAN : e \/ rows = <<>>} :
                  dashboard_data = [csvfile |-> CsvFile(exists, fieldnames, rows),
                                    self |-> NewDashboardData]

\* DashboardData(data_file)
DashboardDataInit ==
    /\ last = "init"
    /\ dashboard_data' =
           [dashboard_data EXCEPT
               !.self = DashboardData_load_data(NewDashboardData, dashboard_data.csvfile)]
    /\ last' = "DashboardData"
    /\ UNCHANGED peak_info
    /\ UNCHANGED <<analysisVars, ingestVars, recordVars>>

\* what happens to the file between two loads: a row is appended to it
FileGrows ==
    /\ last \in {"DashboardData", "reload_data"}
    /\ dashboard_data.self.raised = ""
    /\ Len(dashboard_data.csvfile.rows) < MaxCsvLines
    /\ \E raw \in RawRows :
          dashboard_data' =
              [dashboard_data EXCEPT !.csvfile.rows = Append(@, raw)]
    /\ last' = "row appended"
    /\ UNCHANGED peak_info
    /\ UNCHANGED <<analysisVars, ingestVars, recordVars>>

\* DashboardData.reload_data, of a dashboard that is running
ReloadData ==
    /\ last \in {"DashboardData", "reload_data", "row appended"}
    /\ dashboard_data.self.raised = ""
    /\ dashboard_data' =
           [dashboard_data EXCEPT
               !.self = DashboardData_load_data(dashboard_data.self, dashboard_data.csvfile)]
    /\ last' = "reload_data"
    /\ UNCHANGED peak_info
    /\ UNCHANGED <<analysisVars, ingestVars, recordVars>>

NextDashboard ==
    \/ DashboardDataInit
    \/ FileGrows
    \/ ReloadData

SpecDashboard == InitDashboard /\ [][NextDashboard]_vars

(***************************************************************************)
(* Claims about DashboardData.                                             *)
(***************************************************************************)
\* C29: after a load or a reload, whatever the CSV file holds, timestamps,
\* cpu_data, gpu_data, ram_data, swap_data and power_data have as many
\* entries as data has rows.
C29_SeriesAligned ==
    (last \in {"DashboardData", "reload_data"} /\ dashboard_data.self.raised = "") =>
        \A series \in SeriesNames :
            Len(dashboard_data.self[series]) = Len(dashboard_data.self.data)

(***************************************************************************)
(* The peak period as the views present it: analyze_data of                *)
(* mactop_monitor.py, and the main and the detail layout of the dashboard. *)
(* peak maps a metric to what find_peak_window returned for it, peak_info  *)
(* maps it to what the view shows.                                         *)
(***************************************************************************)
\* nothing about a peak, or a sentence without one
NoPeak(content) ==
    [text |-> content, peak_time |-> <<>>, peak_end |-> <<>>, average |-> <<>>]

\* peak_time, peak_time + timedelta(minutes=15) and the average
PeakPeriod(content, peak_time, average) ==
    [text |-> content, peak_time |-> <<peak_time>>,
     peak_end |-> <<peak_time + WindowSeconds>>, average |-> average]

\* if peak_idx > 0:
MonitorShowsPeak(peak_idx) == peak_idx > 0

DashboardShowsPeakFromZero(peak_idx, timestamps) ==
    peak_idx >= 0 /\ peak_idx < Len(timestamps)

\* if peak_idx > 0 and peak_idx < len(self.data.timestamps):
DashboardShowsPeak(peak_idx, timestamps) ==
    peak_idx > 0 /\ peak_idx < Len(timestamps)

\* a column the file does not have: 0.0 for every row
ZeroSeries(rows) == [i \in 1..Len(rows) |-> 0]

\* cpu_data, gpu_data, ram_data, swap_data of the rows
MetricData(rows, metric) ==
    IF metric = "cpu" THEN ProcessData(MetricCells(rows)) ELSE ZeroSeries(rows)

\* rows of a recording as for find_peak_window, the readings 0, 2 or missing
ViewRows == [timestamp : PeakTimes, cpu_usage_percent : {Empty, <<0>>, <<2>>}]

InitPeakView ==
    /\ IngestIdle
    /\ RecordIdle /\ ViewIdle
    /\ last = "init"
    /\ data \in UNION {[1..n -> ViewRows] : n \in 0..MaxPeakRows}
    /\ peak = Idle
    /\ column = Idle /\ stats = Idle /\ sufficiency = Idle
    /\ df = Idle /\ result_df = Idle
    /\ hdf = Idle /\ heatmap_data = Idle

AnalyzeData ==
    /\ last = "init"
    /\ LET found == find_peak_window(data)
       IN  /\ peak' = [m \in {"cpu"} |-> found]
           /\ peak_info' =
                  [m \in {"cpu"} |->
                      IF MonitorShowsPeak(found[1])
                      THEN PeakPeriod("Peak period", data[found[1] + 1].timestamp[1],
                                      found[2])
                      ELSE NoPeak("")]
    /\ last' = "monitor.analyze_data"
    /\ UNCHANGED <<data, column, stats, sufficiency, df, result_df, hdf, heatmap_data>>
    /\ UNCHANGED <<ingestVars, recordVars, dashboard_data>>

GenerateMainLayout ==
    /\ last = "init"
    /\ LET timestamps == ProcessTimestamps(data)
           found == [m \in {"cpu", "gpu", "ram"} |->
                        dashboard_find_peak_window(timestamps, MetricData(data, m))]
       IN  /\ peak' = found
           /\ peak_info' =
                  [m \in {"cpu", "gpu", "ram"} |->
                      IF DashboardShowsPeak(found[m][1], timestamps)
                      THEN PeakPeriod("peak", timestamps[found[m][1] + 1], found[m][2])
                      ELSE NoPeak("")]
    /\ last' = "dashboard.main_layout"
    /\ UNCHANGED <<data, column, stats, sufficiency, df, result_df, hdf, heatmap_data>>
    /\ UNCHANGED <<ingestVars, recordVars, dashboard_data>>

GenerateDetailLayout ==
    /\ last = "init"
    /\ \E metric \in {"cpu", "gpu", "ram", "swap"} :
          LET timestamps == ProcessTimestamps(data)
              found == dashboard_find_peak_window(timestamps, MetricData(data, metric))
          IN  /\ peak' = [m \in {metric} |-> found]
              /\ peak_info' =
                     [m \in {metric} |->
                         IF DashboardShowsPeak(found[1], timestamps)
                         THEN PeakPeriod("Peak period", timestamps[found[1] + 1], found[2])
                         ELSE NoPeak("Insufficient data to identify peak period")]
    /\ last' = "dashboard.detail_layout"
    /\ UNCHANGED <<data, column, stats, sufficiency, df, result_df, hdf, heatmap_data>>
    /\ UNCHANGED <<ingestVars, recordVars, dashboard_data>>

NextPeakView ==
    \/ AnalyzeData
    \/ GenerateMainLayout
    \/ GenerateDetailLayout

SpecPeakView == InitPeakView /\ [][NextPeakView]_vars

(***************************************************************************)
(* Claims about the views.                                                 *)
(***************************************************************************)
Viewed == last \in {"monitor.analyze_data", "dashboard.main_layout", "dashboard.detail_layout"}

\* C30: a view shows a peak period only for a start index above 0.  When
\* find_peak_window returned index 0, whatever the average, the analyze
\* command and the main layout show nothing about the peak and the detail
\* layout shows 'Insufficient data to identify peak period'.
C30_PeakOnlyFromIndexOne ==
    Viewed =>
        \A m \in DOMAIN peak :
            /\ peak_info[m].peak_time # <<>> => peak[m][1] > 0
            /\ peak[m][1] = 0 =>
                  peak_info[m] =
                      NoPeak(IF last = "dashboard.detail_layout"
                             THEN "Insufficient data to identify peak period"
                             ELSE "")

\* the highest window starts at the first of three samples
C30_Witness ==
    /\ last = "dashboard.detail_layout"
    /\ Len(data) = 3
    /\ "cpu" \in DOMAIN peak
    /\ peak["cpu"][1] = 0
    /\ peak["cpu"][2] = FromInt(2)
    /\ ~ShortSpan(ProcessTimestamps(data)[3] - ProcessTimestamps(data)[1])
====
